---- MODULE Spec2Model ----
(***************************************************************************)
(* Order fulfilment and stock allocation of InvenTree                      *)
(* (src/InvenTree/order/serializers.py): the sales-order allocation        *)
(* ledger, shipment completion, the order state machines and the purchase  *)
(* order receipt workflow.                                                 *)
(*                                                                         *)
(* Further parts: the API exception handler (InvenTree/exceptions.py), the *)
(* daily overdue checks (order/tasks.py) and the version check of a build  *)
(* (ci/version_check.py).                                                  *)
(*                                                                         *)
(* The serializers are under src/.  The model layer they call              *)
(* (order.models, stock.models, InvenTree.helpers) is not: every operator  *)
(* that stands for a model method follows spec.md.                         *)
(***************************************************************************)
EXTENDS Integers, Sequences, FiniteSets, Bags, TLC

VARIABLES
    quantity,       \* StockItem.quantity, per stock item
    allocations,    \* the SalesOrderAllocation table: a bag of rows
    shipment_date,  \* SalesOrderShipment.shipment_date, per shipment
    response,       \* outcome of the last request handled
    pc,             \* concurrent requests: position of each request
    req,            \* concurrent requests: the validated data of each request
    order_kind,     \* the order of the order endpoints: "PO", "SO" or "RO"
    order_status,   \* its status
    received,       \* per line item: quantity received (PO), received or not (RO)
    stock,          \* the StockItem table the receipts add to: a bag of rows
    pack_quantity,  \* SupplierPart.pack_quantity of the part of each PO line
    line_items,     \* the PurchaseOrderLineItem rows the line item endpoint made
    so_state,       \* sales order: are the lines shipped, are shipments pending
    today,          \* background tasks: the date, as a day number
    task_orders,    \* the orders the daily tasks look at: target_date and status
    notifications,  \* the calls of trigger_notification: a bag of order and day
    events,         \* the calls of trigger_event: a bag of order and day
    ran_today,      \* per daily task: has it run today
    failed          \* the orders of the last run with a call that failed inside

ledgerVars == <<quantity, allocations, shipment_date>>
concVars == <<pc, req>>
orderVars == <<order_kind, pack_quantity, line_items, order_status, received, stock, so_state>>

taskVars == <<today, task_orders, notifications, events, ran_today, failed>>

vars == <<ledgerVars, response, concVars, orderVars, taskVars>>

(***************************************************************************)
(* Bounds                                                                  *)
(***************************************************************************)
\* largest quantity of a stock item, of a line item and of a request entry
MaxQty == 2
\* largest number of entries in one request
MaxBatch == 2

Null == "null"

(***************************************************************************)
(* The database rows the requests refer to                                 *)
(***************************************************************************)
\* the requests are those of the endpoints of one sales order, so1; line l2 and
\* shipment sh3 belong to another order
SalesOrders == {"so1", "so2"}
Lines == {"l1", "l2"}
Shipments == {"sh1", "sh2", "sh3"}
StockItems == {"b1", "s1", "s2"}

TheOrder == "so1"

\* SalesOrderLineItem.order
line_order(line) == IF line = "l1" THEN "so1" ELSE "so2"

\* SalesOrderLineItem.quantity
line_quantity(line) == IF line = "l1" THEN 1 ELSE MaxQty

\* SalesOrderShipment.order
shipment_order(shipment) == IF shipment = "sh3" THEN "so2" ELSE "so1"

\* StockItem.serial: b1 is bulk stock, s1 and s2 carry the serial numbers "1", "2"
serial(item) == CASE item = "s1" -> "1"
                  [] item = "s2" -> "2"
                  [] OTHER -> Null

\* StockItem.serialized
serialized(item) == serial(item) # Null

\* serial numbers a request can name; the last one is on no stock item
Serials == {"1", "2", "3"}

(***************************************************************************)
(* Helpers on sequences                                                    *)
(***************************************************************************)
Range(s) == {s[i] : i \in DOMAIN s}

SeqsUpTo(S, n) == UNION {[1..k -> S] : k \in 0..n}

\* the total quantity of the rows of `table` that are in the set `rows`
RECURSIVE SumQuantity(_, _)
SumQuantity(table, rows) ==
    IF rows = {} THEN 0
    ELSE LET a == CHOOSE x \in rows : TRUE
         IN  table[a] * a.quantity + SumQuantity(table, rows \ {a})

\* the table with one more row
Insert(table, row) == table (+) SetToBag({row})

\* the table with the rows of a sequence added
RECURSIVE InsertAll(_, _)
InsertAll(table, rows) ==
    IF rows = <<>> THEN table
    ELSE InsertAll(Insert(table, Head(rows)), Tail(rows))

(***************************************************************************)
(* Stock allocation ledger                                                 *)
(***************************************************************************)
\* the allocations on `item` that belong to a shipment not yet shipped
OpenAllocations(table, item) ==
    {a \in BagToSet(table) : a.item = item /\ shipment_date[a.shipment] = Null}

\* StockItem.unallocated_quantity(), evaluated against the table `table`
unallocated_quantity(item, table) ==
    quantity[item] - SumQuantity(table, OpenAllocations(table, item))

\* SalesOrderAllocation.full_clean(), evaluated against the table `table`
SalesOrderAllocation_full_clean(allocation, table) ==
    /\ allocation.quantity <= unallocated_quantity(allocation.item, table)
    /\ serialized(allocation.item) => allocation.quantity = 1
    /\ shipment_date[allocation.shipment] = Null

(***************************************************************************)
(* Serial number extractor                                                 *)
(***************************************************************************)
\* the decimal text of the integers from 0 on
IntegerText == <<"0", "1", "2", "3", "4", "5", "6", "7", "8", "9", "10",
                 "11", "12", "13", "14", "15", "16", "17", "18", "19", "20">>

\* str(n)
str(n) == IntegerText[n + 1]

\* does int(text) succeed, and its value
is_int(text) == \E k \in DOMAIN IntegerText : IntegerText[k] = text

parse_int(text) == (CHOOSE k \in DOMAIN IntegerText : IntegerText[k] = text) - 1

\* the tokens of a spec, as the split on commas and blanks leaves them: a
\* literal `a`, a range `a-b`, an increment `a+` (b is empty) or `a+b`; the
\* placeholder forms are the literal and the increments whose a is `~`
Literal(a) == [kind |-> "literal", a |-> a, b |-> ""]

RangeToken(a, b) == [kind |-> "range", a |-> a, b |-> b]

Increment(a, b) == [kind |-> "increment", a |-> a, b |-> b]

\* the text of a token
TokenText(token) ==
    CASE token.kind = "literal" -> token.a
      [] token.kind = "range" -> token.a \o "-" \o token.b
      [] token.kind = "increment" -> token.a \o "+" \o token.b

\* a list of serial numbers given one by one
Literals(serial_numbers) ==
    [k \in DOMAIN serial_numbers |-> Literal(serial_numbers[k])]

\* a substitution that starts at the latest serial number itself
RECURSIVE SubstitutePlaceholders_from_latest(_, _)
SubstitutePlaceholders_from_latest(tokens, next_value) ==
    IF tokens = <<>> THEN <<>>
    ELSE IF Head(tokens).a = "~"
    THEN <<[Head(tokens) EXCEPT !.a = str(next_value - 1)]>>
             \o SubstitutePlaceholders_from_latest(Tail(tokens), next_value + 1)
    ELSE <<Head(tokens)>> \o SubstitutePlaceholders_from_latest(Tail(tokens), next_value)

\* a substitution that gives every `~` the same serial number
RECURSIVE SubstitutePlaceholders_no_advance(_, _)
SubstitutePlaceholders_no_advance(tokens, next_value) ==
    IF tokens = <<>> THEN <<>>
    ELSE IF Head(tokens).a = "~"
    THEN <<[Head(tokens) EXCEPT !.a = str(next_value)]>>
             \o SubstitutePlaceholders_no_advance(Tail(tokens), next_value)
    ELSE <<Head(tokens)>> \o SubstitutePlaceholders_no_advance(Tail(tokens), next_value)

\* every `~` of the spec, from left to right, becomes the next serial number
\* after the latest one: the first the one after the hint, the second the
\* one after that
RECURSIVE SubstitutePlaceholders(_, _)
SubstitutePlaceholders(tokens, next_value) ==
    IF tokens = <<>> THEN <<>>
    ELSE IF Head(tokens).a = "~"
    THEN <<[Head(tokens) EXCEPT !.a = str(next_value)]>>
             \o SubstitutePlaceholders(Tail(tokens), next_value + 1)
    ELSE <<Head(tokens)>> \o SubstitutePlaceholders(Tail(tokens), next_value)

\* the serial numbers from..from+count-1
Consecutive(from, count) == [k \in 1..count |-> str(from + k - 1)]

\* an expansion that takes a descending range for an empty one
ExpandToken_descending(token, remaining) ==
    CASE token.kind = "literal" ->
            [ok |-> TRUE, serials |-> <<token.a>>]
      [] token.kind = "range" ->
            IF ~is_int(token.a) \/ ~is_int(token.b)
            THEN [ok |-> FALSE, serials |-> <<>>]
            ELSE LET a == parse_int(token.a)
                     b == parse_int(token.b)
                 IN  IF a <= b /\ b - a + 1 > remaining
                     THEN [ok |-> FALSE, serials |-> <<>>]
                     ELSE [ok |-> TRUE,
                           serials |-> IF a > b THEN <<>> ELSE Consecutive(a, b - a + 1)]
      [] token.kind = "increment" ->
            IF ~is_int(token.a) \/ (token.b # "" /\ ~is_int(token.b))
            THEN [ok |-> FALSE, serials |-> <<>>]
            ELSE LET count == IF token.b = "" THEN remaining
                              ELSE parse_int(token.b) + 1
                 IN  [ok |-> TRUE, serials |-> Consecutive(parse_int(token.a), count)]

\* the serial numbers of one token, given how many are still expected, or
\* an error: a range whose sides are not integers, that descends or that
\* has more values than are still expected, an increment that does not
\* start at an integer
ExpandToken(token, remaining) ==
    CASE token.kind = "literal" ->
            [ok |-> TRUE, serials |-> <<token.a>>]
      [] token.kind = "range" ->
            IF ~is_int(token.a) \/ ~is_int(token.b)
            THEN [ok |-> FALSE, serials |-> <<>>]
            ELSE LET a == parse_int(token.a)
                     b == parse_int(token.b)
                 IN  IF a > b \/ b - a + 1 > remaining
                     THEN [ok |-> FALSE, serials |-> <<>>]
                     ELSE [ok |-> TRUE, serials |-> Consecutive(a, b - a + 1)]
      [] token.kind = "increment" ->
            IF ~is_int(token.a) \/ (token.b # "" /\ ~is_int(token.b))
            THEN [ok |-> FALSE, serials |-> <<>>]
            ELSE LET count == IF token.b = "" THEN remaining
                              ELSE parse_int(token.b) + 1
                 IN  [ok |-> TRUE, serials |-> Consecutive(parse_int(token.a), count)]

\* an expansion that takes a serial number twice
RECURSIVE ExpandTokens_with_duplicates(_, _, _)
ExpandTokens_with_duplicates(tokens, serials, expected_quantity) ==
    IF tokens = <<>> THEN [ok |-> TRUE, serials |-> serials]
    ELSE LET x == ExpandToken(Head(tokens), expected_quantity - Len(serials))
         IN  IF ~x.ok
             THEN [ok |-> FALSE, serials |-> <<>>]
             ELSE ExpandTokens_with_duplicates(Tail(tokens), serials \o x.serials,
                                               expected_quantity)

\* the tokens expanded in order; a serial number that is there already is
\* an error
RECURSIVE ExpandTokens(_, _, _)
ExpandTokens(tokens, serials, expected_quantity) ==
    IF tokens = <<>> THEN [ok |-> TRUE, serials |-> serials]
    ELSE LET x == ExpandToken(Head(tokens), expected_quantity - Len(serials))
         IN  IF \/ ~x.ok
                \/ Range(x.serials) \cap Range(serials) # {}
             THEN [ok |-> FALSE, serials |-> <<>>]
             ELSE ExpandTokens(Tail(tokens), serials \o x.serials, expected_quantity)

\* extract_serial_numbers(): the placeholders are substituted, then a spec of
\* as many tokens as serial numbers are expected is taken token by token,
\* and any other spec is expanded; the result has no serial number twice
\* and as many as expected
extract_serial_numbers(tokens, expected_quantity, starting_value) ==
    LET groups == SubstitutePlaceholders(tokens, starting_value + 1)
        texts == [k \in DOMAIN groups |-> TokenText(groups[k])]
        x == ExpandTokens(groups, <<>>, expected_quantity)
    IN  IF groups = <<>>
        THEN [ok |-> FALSE, serials |-> <<>>]
        ELSE IF Len(groups) = expected_quantity
        THEN IF Cardinality(Range(texts)) # Len(texts)
             THEN [ok |-> FALSE, serials |-> <<>>]
             ELSE [ok |-> TRUE, serials |-> texts]
        ELSE IF ~x.ok \/ Len(x.serials) = 0 \/ Len(x.serials) # expected_quantity
        THEN [ok |-> FALSE, serials |-> <<>>]
        ELSE x

\* the greatest of a set of serial numbers, 0 if there is none
latest_serial_number(serials) ==
    IF serials = {} THEN 0
    ELSE CHOOSE n \in {parse_int(t) : t \in serials} :
             \A t \in serials : parse_int(t) <= n

\* Part.get_latest_serial_number, for the part of the sales order lines
get_latest_serial_number ==
    latest_serial_number({serial(i) : i \in StockItems} \ {Null})

(***************************************************************************)
(* InvenTree.exceptions.exception_handler: what the caller of the API      *)
(* receives when a view raises                                             *)
(***************************************************************************)
\* an exception: its class, str(exc) and, for a validation error, the keys
\* of its message map (none for a plain message)
Exception(class, message, keys) ==
    [class |-> class, message |-> message, keys |-> keys]

\* the validation errors of the REST framework and of django
ValidationErrors == {"ValidationError", "DjangoValidationError"}

\* the exception classes the REST framework answers by itself, with their
\* status codes
APIExceptions == {"ValidationError", "NotFound", "PermissionDenied"}

status_code(class) ==
    CASE class = "ValidationError" -> 400
      [] class = "NotFound" -> 404
      [] class = "PermissionDenied" -> 403

\* settings.TESTING and settings.DEBUG
Settings == [TESTING : BOOLEAN, DEBUG : BOOLEAN]

\* what the caller gets: a response with a status code and a body, or the
\* exception itself.  The body is a message map (keys) for a validation
\* error and the error report (error, error_class, detail, path) otherwise.
Handled(outcome, code, keys, error, error_class, detail, path) ==
    [outcome |-> outcome, status_code |-> code, keys |-> keys, error |-> error,
     error_class |-> error_class, detail |-> detail, path |-> path]

\* no exception, no response
NotRaised == Handled("none", 0, {}, "", "", "", "")

\* serializers.as_serializer_error: a message map keeps its keys, a plain
\* message goes under the non-field key
as_serializer_error(exc) ==
    IF exc.keys = {} THEN {"non_field_errors"} ELSE exc.keys

\* rest_framework.views.exception_handler: None (NotRaised) for what is no
\* APIException
drf_exception_handler(exc) ==
    IF exc.class \in APIExceptions
    THEN Handled("response", status_code(exc.class),
                 IF exc.class = "ValidationError" THEN as_serializer_error(exc) ELSE {"detail"},
                 "", "", "", "")
    ELSE NotRaised

\* str(type(exc))
type_str(class) == "<class '" \o class \o "'>"

\* the handler without the conversion of django validation errors
exception_handler_no_conversion(exc, path, settings) ==
    LET drf_response == drf_exception_handler(exc)
        error_detail == IF settings.DEBUG THEN exc.message
                        ELSE "Error details can be found in the admin panel"
        answer == IF drf_response # NotRaised THEN drf_response
                  ELSE Handled("response", 500, {}, exc.class, type_str(exc.class),
                               error_detail, path)
    IN  IF drf_response = NotRaised /\ settings.TESTING
        THEN Handled("raise", 0, {}, exc.class, type_str(exc.class), exc.message, path)
        ELSE [answer EXCEPT !.keys = (@ \ {"__all__"}) \cup
                                     IF "__all__" \in @ THEN {"non_field_errors"} ELSE {}]

\* exception_handler(exc, context): a django validation error becomes a
\* REST framework one; what the REST framework does not answer is raised
\* again in TESTING mode and otherwise answered with status 500, with
\* str(exc) as the detail in DEBUG mode only; the key __all__ of a message
\* map is renamed
exception_handler(exc, path, settings) ==
    LET converted == IF exc.class = "DjangoValidationError"
                     THEN Exception("ValidationError", exc.message, as_serializer_error(exc))
                     ELSE exc
        drf_response == drf_exception_handler(converted)
        error_detail == IF settings.DEBUG THEN converted.message
                        ELSE "Error details can be found in the admin panel"
        answer == IF drf_response # NotRaised THEN drf_response
                  ELSE Handled("response", 500, {}, converted.class,
                               type_str(converted.class), error_detail, path)
    IN  IF drf_response = NotRaised /\ settings.TESTING
        THEN Handled("raise", 0, {}, converted.class, type_str(converted.class),
                     converted.message, path)
        ELSE [answer EXCEPT !.keys = (@ \ {"__all__"}) \cup
                                     IF "__all__" \in @ THEN {"non_field_errors"} ELSE {}]

\* the settings of a deployed server
Production == [TESTING |-> FALSE, DEBUG |-> FALSE]

\* what a request answers: the validated data of the request and the rows it
\* created, in the order of their creation, or the stage that raised
\* (is_valid() or save()), the exception raised, the keys of its message map
\* and, for save(), the entry it was raised at; `handled` is what the
\* exception handler makes of the exception for the caller
Response(op, status, stage, raised, errors, failed_at, data, created) ==
    [op |-> op, status |-> status, stage |-> stage, raised |-> raised,
     errors |-> errors, failed_at |-> failed_at, data |-> data, created |-> created,
     handled |-> IF status = "error"
                 THEN exception_handler(Exception(raised, "invalid", errors), op, Production)
                 ELSE NotRaised]

Accepted(op, data, created) ==
    Response(op, "ok", "save", "none", {}, 0, data, created)

\* a request that fails validation: is_valid() raises, save() is never called
Reject(op, errors) ==
    /\ response' = Response(op, "error", "validate", "ValidationError", errors, 0, Null, <<>>)
    /\ UNCHANGED <<quantity, allocations, shipment_date>>

(***************************************************************************)
(* SalesOrderShipmentAllocationSerializer: allocate stock items            *)
(***************************************************************************)
AllocationItem_validate_line_item(line_item, order) ==
    line_order(line_item) = order

AllocationItem_validate_quantity(q) ==
    ~(q <= 0)

AllocationItem_validate(entry) ==
    /\ ~(serialized(entry.stock_item) /\ entry.quantity # 1)
    /\ ~(entry.quantity > unallocated_quantity(entry.stock_item, allocations))

ShipmentAllocation_validate_shipment(shipment, order) ==
    /\ ~(shipment_date[shipment] # Null)
    /\ ~(shipment_order(shipment) # order)

ShipmentAllocation_validate(data) ==
    ~(Len(data.items) = 0)

\* serializer.is_valid(): the fields in error; validate() of a serializer runs
\* only when none of its fields is in error
ShipmentAllocation_errors(order, data) ==
    LET entry_ok(entry) ==
            /\ AllocationItem_validate_line_item(entry.line_item, order)
            /\ AllocationItem_validate_quantity(entry.quantity)
            /\ AllocationItem_validate(entry)
        fields ==
            {f \in {"shipment"} : ~ShipmentAllocation_validate_shipment(data.shipment, order)}
            \cup {f \in {"items"} : \E k \in DOMAIN data.items : ~entry_ok(data.items[k])}
    IN  IF fields # {} THEN fields
        ELSE {f \in {"non_field_errors"} : ~ShipmentAllocation_validate(data)}

AllocationRow(entry, shipment) ==
    [line |-> entry.line_item, item |-> entry.stock_item,
     quantity |-> entry.quantity, shipment |-> shipment]

\* a loop whose full_clean() sees the table as it was before the request
RECURSIVE CreateAllocations_pre_batch(_, _, _, _)
CreateAllocations_pre_batch(items, shipment, created, k) ==
    IF k > Len(items) THEN [ok |-> TRUE, created |-> created, failed_at |-> 0]
    ELSE LET allocation == AllocationRow(items[k], shipment)
         IN  IF ~SalesOrderAllocation_full_clean(allocation, allocations)
             THEN [ok |-> FALSE, created |-> created, failed_at |-> k]
             ELSE CreateAllocations_pre_batch(items, shipment, Append(created, allocation), k + 1)

\* the loop of save() from entry k on, with the rows `created` so far in this
\* transaction: full_clean() then save() of one allocation per entry, stopping
\* at the first entry that raises
RECURSIVE CreateAllocations(_, _, _, _)
CreateAllocations(items, shipment, created, k) ==
    IF k > Len(items) THEN [ok |-> TRUE, created |-> created, failed_at |-> 0]
    ELSE LET allocation == AllocationRow(items[k], shipment)
         IN  IF ~SalesOrderAllocation_full_clean(allocation, InsertAll(allocations, created))
             THEN [ok |-> FALSE, created |-> created, failed_at |-> k]
             ELSE CreateAllocations(items, shipment, Append(created, allocation), k + 1)

\* what save() answers: full_clean() raises a django ValidationError
SaveResponse(data, r) ==
    IF r.ok THEN Accepted("allocate", data, r.created)
    ELSE Response("allocate", "error", "save", "DjangoValidationError", {"quantity"},
                  r.failed_at, data, <<>>)

\* save() that skips full_clean()
ShipmentAllocation_save_no_clean(data) ==
    LET created == [k \in 1..Len(data.items) |-> AllocationRow(data.items[k], data.shipment)]
    IN  /\ allocations' = InsertAll(allocations, created)
        /\ response' = Accepted("allocate", data, created)
        /\ UNCHANGED <<quantity, shipment_date>>

\* save() without transaction.atomic(): the rows created before the failure stay
ShipmentAllocation_save_no_atomic(data) ==
    LET r == CreateAllocations(data.items, data.shipment, <<>>, 1)
    IN  /\ allocations' = InsertAll(allocations, r.created)
        /\ response' = SaveResponse(data, r)
        /\ UNCHANGED <<quantity, shipment_date>>

\* save() that also takes the allocated quantity out of the stock items
ShipmentAllocation_save_takes_stock(data) ==
    LET r == CreateAllocations(data.items, data.shipment, <<>>, 1)
        new == InsertAll(EmptyBag, r.created)
    IN  /\ allocations' = IF r.ok THEN InsertAll(allocations, r.created) ELSE allocations
        /\ quantity' = IF r.ok
                       THEN [i \in StockItems |->
                               quantity[i] - SumQuantity(new,
                                   {a \in BagToSet(new) : a.item = i})]
                       ELSE quantity
        /\ response' = SaveResponse(data, r)
        /\ UNCHANGED shipment_date

\* save(): inside transaction.atomic(), so a failure leaves the table as it was
ShipmentAllocation_save(data) ==
    LET r == CreateAllocations(data.items, data.shipment, <<>>, 1)
    IN  /\ allocations' = IF r.ok THEN InsertAll(allocations, r.created) ELSE allocations
        /\ response' = SaveResponse(data, r)
        /\ UNCHANGED <<quantity, shipment_date>>

\* one request to the allocation endpoint of `order`: is_valid(), then save()
AllocateItems(order, data) ==
    IF ShipmentAllocation_errors(order, data) = {}
    THEN ShipmentAllocation_save(data)
    ELSE Reject("allocate", ShipmentAllocation_errors(order, data))

(***************************************************************************)
(* SalesOrderSerialAllocationSerializer: allocate by serial number         *)
(* All line items and stock items here are of the same part.               *)
(***************************************************************************)
SerialAllocation_validate_line_item(line_item, order) ==
    line_order(line_item) = order

\* IntegerField(min_value=1)
SerialAllocation_validate_quantity(q) ==
    q >= 1

\* validate_shipment() that forgets the shipment_date check
SerialAllocation_validate_shipment_any_date(shipment, order) ==
    ~(shipment_order(shipment) # order)

SerialAllocation_validate_shipment(shipment, order) ==
    /\ ~(shipment_date[shipment] # Null)
    /\ ~(shipment_order(shipment) # order)

\* StockItem.objects.filter(part=part, serial=serial, quantity=1)
StockItemsWithSerial(s) ==
    {i \in StockItems : serial(i) = s /\ quantity[i] = 1}

\* validate() that takes every existing serial, allocated or not
SerialAllocation_validate_ignores_allocated(data) ==
    LET x == extract_serial_numbers(Literals(data.serial_numbers), data.quantity,
                                    get_latest_serial_number)
        found == SelectSeq(x.serials, LAMBDA s : StockItemsWithSerial(s) # {})
    IN  [ok |-> x.ok /\ Len(found) = Len(x.serials),
         stock_items |-> [k \in 1..Len(found) |->
                            CHOOSE i \in StockItemsWithSerial(found[k]) : TRUE]]

\* validate(): the stock items to allocate, or an error
SerialAllocation_validate(data) ==
    LET x == extract_serial_numbers(Literals(data.serial_numbers), data.quantity,
                                    get_latest_serial_number)
        serials_not_exist == SelectSeq(x.serials, LAMBDA s : StockItemsWithSerial(s) = {})
        found == SelectSeq(x.serials, LAMBDA s : StockItemsWithSerial(s) # {})
        stock_item(s) == CHOOSE i \in StockItemsWithSerial(s) : TRUE
        serials_allocated ==
            SelectSeq(found, LAMBDA s : unallocated_quantity(stock_item(s), allocations) # 1)
        serials_free ==
            SelectSeq(found, LAMBDA s : unallocated_quantity(stock_item(s), allocations) = 1)
    IN  [ok |-> /\ x.ok
                /\ ~(Len(serials_not_exist) > 0)
                /\ ~(Len(serials_allocated) > 0),
         stock_items |-> [k \in 1..Len(serials_free) |-> stock_item(serials_free[k])]]

SerialAllocation_errors(order, data) ==
    LET fields ==
            {f \in {"line_item"} : ~SerialAllocation_validate_line_item(data.line_item, order)}
            \cup {f \in {"quantity"} : ~SerialAllocation_validate_quantity(data.quantity)}
            \cup {f \in {"shipment"} : ~SerialAllocation_validate_shipment(data.shipment, order)}
    IN  IF fields # {} THEN fields
        ELSE {f \in {"serial_numbers"} : ~SerialAllocation_validate(data).ok}

\* save(): SalesOrderAllocation.objects.create() per stock item, quantity 1
SerialAllocation_save(data, stock_items) ==
    LET created == [k \in 1..Len(stock_items) |->
                       [line |-> data.line_item, item |-> stock_items[k],
                        quantity |-> 1, shipment |-> data.shipment]]
    IN  /\ allocations' = InsertAll(allocations, created)
        /\ response' = Accepted("allocate_serials", data, created)
        /\ UNCHANGED <<quantity, shipment_date>>

\* one request to the serial allocation endpoint of `order`
AllocateSerials(order, data) ==
    IF SerialAllocation_errors(order, data) = {}
    THEN SerialAllocation_save(data, SerialAllocation_validate(data).stock_items)
    ELSE Reject("allocate_serials", SerialAllocation_errors(order, data))

(***************************************************************************)
(* SalesOrderShipmentCompleteSerializer: ship a shipment                   *)
(***************************************************************************)
\* SalesOrderShipment.check_can_complete(raise_error=True)
check_can_complete(shipment) ==
    shipment_date[shipment] = Null

ShipmentComplete_validate(shipment) ==
    /\ ~(shipment = Null)
    /\ check_can_complete(shipment)

\* SalesOrderShipment.complete_shipment(): the allocated stock leaves the stock
\* items and the shipment is dated
complete_shipment(shipment, date) ==
    /\ quantity' = [i \in StockItems |->
           quantity[i] - SumQuantity(allocations,
               {a \in BagToSet(allocations) : a.item = i /\ a.shipment = shipment})]
    /\ shipment_date' = [shipment_date EXCEPT ![shipment] = date]

\* save(): the shipment date of the request, today's date when it gives none
ShipmentComplete_save(shipment, data) ==
    LET date == IF data.shipment_date = Null THEN "now" ELSE data.shipment_date
    IN  /\ complete_shipment(shipment, date)
        /\ response' = Accepted("ship", data, <<>>)
        /\ UNCHANGED allocations

CompleteShipment(shipment, data) ==
    IF ShipmentComplete_validate(shipment)
    THEN ShipmentComplete_save(shipment, data)
    ELSE Reject("ship", {"non_field_errors"})

(***************************************************************************)
(* Requests                                                                *)
(***************************************************************************)
\* entries that pass the field validators: bulk stock or a serialized item,
\* allocated to the line item of the order
AllocationEntries ==
    [line_item : {"l1"}, stock_item : {"b1"}, quantity : 1..MaxQty]
    \cup [line_item : {"l1"}, stock_item : {"s1", "s2"}, quantity : {1}]

\* entries that no validator accepts: a quantity of zero, a serialized item
\* with a quantity of 2, the line item of another order
BadAllocationEntries ==
    {[line_item |-> "l1", stock_item |-> "b1", quantity |-> 0],
     [line_item |-> "l1", stock_item |-> "s1", quantity |-> 2],
     [line_item |-> "l2", stock_item |-> "b1", quantity |-> 1]}

\* the shipments of the order
OwnShipments == {shipment \in Shipments : shipment_order(shipment) = TheOrder}

\* batches on the shipments of the order, and one entry on any shipment
AllocationRequests ==
    [items : SeqsUpTo(AllocationEntries, MaxBatch), shipment : OwnShipments]
    \cup [items : {<<e>> : e \in AllocationEntries \cup BadAllocationEntries},
          shipment : Shipments]

\* serial_numbers is a required, non-blank field; quantity is the length of
\* the list, or differs from it, and the line item may be of another order
SerialRequests ==
    {[line_item |-> "l1", quantity |-> Len(sn), serial_numbers |-> sn, shipment |-> sh] :
        sn \in SeqsUpTo(Serials, MaxBatch) \ {<<>>}, sh \in OwnShipments}
    \cup {[line_item |-> "l1", quantity |-> 1, serial_numbers |-> <<sn>>, shipment |-> sh] :
        sn \in Serials, sh \in Shipments}
    \cup [line_item : Lines, quantity : 0..2,
          serial_numbers : {<<"1">>}, shipment : {"sh1"}]

ShipRequests == [shipment_date : {Null, "d1"}]

NoResponse == Response("none", "ok", "none", "none", {}, 0, Null, <<>>)

(***************************************************************************)
(* SpecAlloc: any sequence of allocation requests, one after the other     *)
(***************************************************************************)
InitLedger ==
    /\ quantity = [i \in StockItems |-> IF serialized(i) THEN 1 ELSE MaxQty]
    /\ allocations = EmptyBag
    /\ shipment_date = [s \in Shipments |-> Null]
    /\ response = NoResponse

\* the variables of the daily tasks, when none is scheduled
NoTasks ==
    /\ today = 1
    /\ task_orders = <<>>
    /\ notifications = EmptyBag
    /\ events = EmptyBag
    /\ ran_today = <<>>
    /\ failed = {}

\* the variables of the concurrent workers, when there are none
NoWorkers ==
    /\ pc = <<>>
    /\ req = <<>>

\* the variables of the order endpoints, when no order is served
NoOrder ==
    /\ order_kind = Null
    /\ pack_quantity = <<>>
    /\ line_items = <<>>
    /\ order_status = Null
    /\ received = <<>>
    /\ stock = EmptyBag
    /\ so_state = Null

InitAlloc ==
    /\ NoTasks
    /\ InitLedger
    /\ NoWorkers
    /\ NoOrder

ItemAllocationRequest ==
    \E data \in AllocationRequests :
        AllocateItems(TheOrder, data) /\ UNCHANGED <<concVars, orderVars, taskVars>>

SerialAllocationRequest ==
    \E data \in SerialRequests :
        AllocateSerials(TheOrder, data) /\ UNCHANGED <<concVars, orderVars, taskVars>>

ShipmentCompleteRequest ==
    \E shipment \in OwnShipments \cup {Null},
       data \in ShipRequests :
        CompleteShipment(shipment, data) /\ UNCHANGED <<concVars, orderVars, taskVars>>

NextAlloc ==
    \/ ItemAllocationRequest
    \/ SerialAllocationRequest

SpecAlloc == InitAlloc /\ [][NextAlloc]_vars

(***************************************************************************)
(* SpecShip: allocation requests and shipment completions                  *)
(***************************************************************************)
NextShip ==
    \/ ItemAllocationRequest
    \/ SerialAllocationRequest
    \/ ShipmentCompleteRequest

SpecShip == InitAlloc /\ [][NextShip]_vars

(***************************************************************************)
(* SpecConc: two allocation requests handled concurrently.  A request is   *)
(* validated by is_valid() and saved by save() in two steps, and the steps *)
(* of the two requests interleave.  save() runs in its own transaction and *)
(* is one step: it sees every row committed before it.                     *)
(***************************************************************************)
Workers == {"w1", "w2"}

\* the requests of the concurrent workers: one entry each, into shipment sh1
ConcAllocationRequests ==
    [items : {<<e>> : e \in AllocationEntries}, shipment : {"sh1"}]

ConcSerialRequests ==
    [line_item : {"l1"}, quantity : {1},
     serial_numbers : {<<sn>> : sn \in Serials}, shipment : {"sh1"}]

Idle == [op |-> "none", data |-> Null, stock_items |-> <<>>]

InitConc ==
    /\ NoTasks
    /\ InitLedger
    /\ NoOrder
    /\ pc = [w \in Workers |-> "idle"]
    /\ req = [w \in Workers |-> Idle]

\* a worker receives an item allocation request and runs is_valid()
ValidateItems(w) ==
    /\ pc[w] = "idle"
    /\ \E data \in ConcAllocationRequests :
          IF ShipmentAllocation_errors(TheOrder, data) = {}
          THEN /\ pc' = [pc EXCEPT ![w] = "validated"]
               /\ req' = [req EXCEPT ![w] =
                             [op |-> "allocate", data |-> data, stock_items |-> <<>>]]
               /\ UNCHANGED <<ledgerVars, response, orderVars, taskVars>>
          ELSE /\ Reject("allocate", ShipmentAllocation_errors(TheOrder, data))
               /\ UNCHANGED <<concVars, orderVars, taskVars>>

\* a worker receives a serial allocation request and runs is_valid()
ValidateSerials(w) ==
    /\ pc[w] = "idle"
    /\ \E data \in ConcSerialRequests :
          IF SerialAllocation_errors(TheOrder, data) = {}
          THEN /\ pc' = [pc EXCEPT ![w] = "validated"]
               /\ req' = [req EXCEPT ![w] =
                             [op |-> "allocate_serials", data |-> data,
                              stock_items |-> SerialAllocation_validate(data).stock_items]]
               /\ UNCHANGED <<ledgerVars, response, orderVars, taskVars>>
          ELSE /\ Reject("allocate_serials", SerialAllocation_errors(TheOrder, data))
               /\ UNCHANGED <<concVars, orderVars, taskVars>>

\* a worker runs save() on the data it validated
Save(w) ==
    /\ pc[w] = "validated"
    /\ IF req[w].op = "allocate"
       THEN ShipmentAllocation_save(req[w].data)
       ELSE SerialAllocation_save(req[w].data, req[w].stock_items)
    /\ pc' = [pc EXCEPT ![w] = "idle"]
    /\ req' = [req EXCEPT ![w] = Idle]
    /\ UNCHANGED <<orderVars, taskVars>>

NextConc ==
    \E w \in Workers :
        \/ ValidateItems(w)
        \/ ValidateSerials(w)
        \/ Save(w)

SpecConc == InitConc /\ [][NextConc]_vars

(***************************************************************************)
(* The order endpoints: issue, complete, cancel and receive, on one order  *)
(* of one family                                                           *)
(***************************************************************************)
OrderKinds == {"PO", "SO", "RO"}

\* PurchaseOrderStatus.PLACED, SalesOrderStatus.IN_PROGRESS,
\* ReturnOrderStatus.IN_PROGRESS: the status an issued order takes
IssuedStatus(kind) == IF kind = "PO" THEN "PLACED" ELSE "IN_PROGRESS"

\* the status a completed order takes
CompleteStatus(kind) == IF kind = "SO" THEN "SHIPPED" ELSE "COMPLETE"

\* the statuses no transition leaves
TerminalStatus(kind) ==
    {CompleteStatus(kind), "CANCELLED"}
        \cup (IF kind = "PO" THEN {"LOST", "RETURNED"} ELSE {})

\* the line items: pl3 and rl3 are line items of another order
PurchaseOrderLineItems == {"pl1", "pl2", "pl3"}
ReturnOrderLineItems == {"rl1", "rl2", "rl3"}

OwnLines(kind) ==
    IF kind = "PO" THEN {"pl1", "pl2"}
    ELSE IF kind = "RO" THEN {"rl1", "rl2"}
    ELSE {}

\* line.quantity of a purchase order line item, in packs
po_line_quantity(line) == IF line = "pl1" THEN MaxQty ELSE 1

\* line.part.part: the part the line's supplier part supplies
base_part(line) == IF line = "pl2" THEN "bulk" ELSE "tracked"

trackable(part) == part = "tracked"

\* a decimal number: numerator over denominator
Decimal(n, d) == <<n, d>>

\* int(): the whole part of a decimal number
int(x) == x[1] \div x[2]

\* SupplierPart.base_quantity: packs to units of the base part
base_quantity(line, q) ==
    Decimal(q * pack_quantity[line][1], pack_quantity[line][2])

\* PurchaseOrderLineItem.get_destination: the line's own destination, if any
get_destination(line) == IF line = "pl2" THEN "locD" ELSE Null

\* hash_barcode: an md5 digest, one digest per barcode
hash_barcode(barcode) == "md5:" \o barcode

\* StockItem.lookup_barcode: is there a stock item with this barcode hash
lookup_barcode(table, barcode_hash) ==
    \E item \in BagToSet(table) : item.barcode_hash = barcode_hash

\* a row of the StockItem table
StockItem(part, serial_number, q, location, barcode_hash) ==
    [part |-> part, serial |-> serial_number, quantity |-> q,
     location |-> location, barcode_hash |-> barcode_hash]

\* PurchaseOrder.is_complete: every line item is fully received; a line item
\* made by the line item endpoint has received nothing
is_complete ==
    /\ \A line \in OwnLines("PO") : received[line] >= po_line_quantity(line)
    /\ \A k \in 1..Len(line_items) : line_items[k].quantity <= 0

\* a request the order refuses: the exception raised in is_valid() or in
\* save(), the order as it was
OrderRaise(op, stage, errors) ==
    /\ response' = Response(op, "error", stage, "ValidationError", errors, 0, Null, <<>>)
    /\ UNCHANGED orderVars

\* a transition of the state graph: its guard holds or it raises
Transition(op, guard, to) ==
    IF guard
    THEN /\ order_status' = to
         /\ response' = Accepted(op, Null, <<>>)
         /\ UNCHANGED <<order_kind, pack_quantity, line_items, received, stock, so_state>>
    ELSE OrderRaise(op, "save", {"non_field_errors"})

\* PurchaseOrder.place_order
place_order == Transition("issue", order_status = "PENDING", "PLACED")

\* SalesOrder.issue_order, ReturnOrder.issue_order
issue_order == Transition("issue", order_status = "PENDING", "IN_PROGRESS")

\* Order.can_cancel: the order is not in a terminal state
can_cancel == order_status \notin TerminalStatus(order_kind)

\* Order.cancel_order
cancel_order == Transition("cancel", can_cancel, "CANCELLED")

\* a completion that does not look at the status of the order
complete_order_any_status ==
    Transition("complete", TRUE, CompleteStatus(order_kind))

\* PurchaseOrder.complete_order, ReturnOrder.complete_order: called without an
\* override, the order must be the issued one
complete_order ==
    Transition("complete", order_status = IssuedStatus(order_kind),
               CompleteStatus(order_kind))

\* SalesOrder.is_completed: every line item is fully shipped
is_completed == so_state.lines_complete

\* SalesOrder.can_complete: the order is in progress, its line items are
\* shipped and no shipment is pending, unless the override is passed
can_complete(allow_incomplete_lines) ==
    /\ order_status = "IN_PROGRESS"
    /\ allow_incomplete_lines
          \/ (is_completed /\ ~so_state.pending_shipments)

\* SalesOrder.complete_order
SalesOrder_complete_order(allow_incomplete_lines) ==
    Transition("complete", can_complete(allow_incomplete_lines), "SHIPPED")

\* a save() that places the order whatever its status
PurchaseOrderIssue_any_status ==
    /\ order_kind = "PO"
    /\ Transition("issue", TRUE, "PLACED")

\* PurchaseOrderIssueSerializer.save
PurchaseOrderIssue ==
    /\ order_kind = "PO"
    /\ place_order

\* PurchaseOrderCompleteSerializer.validate_accept_incomplete
PurchaseOrderComplete_validate_accept_incomplete(value) ==
    ~(~value /\ ~is_complete)

\* PurchaseOrderCompleteSerializer: is_valid() then save()
PurchaseOrderComplete(accept_incomplete) ==
    /\ order_kind = "PO"
    /\ IF PurchaseOrderComplete_validate_accept_incomplete(accept_incomplete)
       THEN complete_order
       ELSE OrderRaise("complete", "validate", {"accept_incomplete"})

\* a save() that cancels the order without asking whether it can be cancelled
PurchaseOrderCancel_no_check ==
    /\ order_kind = "PO"
    /\ Transition("cancel", TRUE, "CANCELLED")

\* PurchaseOrderCancelSerializer.save
PurchaseOrderCancel ==
    /\ order_kind = "PO"
    /\ IF ~can_cancel
       THEN OrderRaise("cancel", "save", {"non_field_errors"})
       ELSE cancel_order

\* SalesOrderIssueSerializer.save
SalesOrderIssue ==
    /\ order_kind = "SO"
    /\ issue_order

\* SalesOrderCompleteSerializer.validate_accept_incomplete
SalesOrderComplete_validate_accept_incomplete(value) ==
    ~(~value /\ ~is_completed)

\* SalesOrderCompleteSerializer: is_valid() then save()
SalesOrderComplete(accept_incomplete) ==
    /\ order_kind = "SO"
    /\ IF ~SalesOrderComplete_validate_accept_incomplete(accept_incomplete)
       THEN OrderRaise("complete", "validate", {"accept_incomplete"})
       ELSE IF ~can_complete(accept_incomplete)
       THEN OrderRaise("complete", "validate", {"non_field_errors"})
       ELSE SalesOrder_complete_order(accept_incomplete)

\* SalesOrderCancelSerializer.save
SalesOrderCancel ==
    /\ order_kind = "SO"
    /\ cancel_order

\* ReturnOrderIssueSerializer.save
ReturnOrderIssue ==
    /\ order_kind = "RO"
    /\ issue_order

\* ReturnOrderCompleteSerializer.save
ReturnOrderComplete ==
    /\ order_kind = "RO"
    /\ complete_order

\* ReturnOrderCancelSerializer.save
ReturnOrderCancel ==
    /\ order_kind = "RO"
    /\ cancel_order

(***************************************************************************)
(* PurchaseOrderReceiveSerializer: receive items against a purchase order  *)
(***************************************************************************)
\* PurchaseOrderLineItemReceiveSerializer.validate_line_item
LineItemReceive_validate_line_item(item) ==
    item \in OwnLines("PO")

\* PurchaseOrderLineItemReceiveSerializer.validate_quantity
LineItemReceive_validate_quantity(q) == ~(q <= 0)

\* PurchaseOrderLineItemReceiveSerializer.validate_barcode: a blank barcode
\* becomes None, a barcode already assigned is refused
LineItemReceive_validate_barcode(barcode) ==
    IF barcode = ""
    THEN [ok |-> TRUE, barcode |-> Null]
    ELSE IF lookup_barcode(stock, hash_barcode(barcode))
    THEN [ok |-> FALSE, barcode |-> barcode]
    ELSE [ok |-> TRUE, barcode |-> barcode]

\* Decimal(base_quantity) != int(base_quantity), negated
is_integer(x) == x[1] = int(x) * x[2]

\* the count extract_serial_numbers() compares with: no list of serial
\* numbers is as long as a quantity that is not whole
expected_quantity(x) == IF is_integer(x) THEN int(x) ELSE -1

\* Part.get_latest_serial_number, for the base part of a purchase order line
base_part_get_latest_serial_number(part) ==
    latest_serial_number({row.serial : row \in {r \in BagToSet(stock) : r.part = part}}
                            \ {Null})

\* a validate() that takes any quantity of a trackable part
LineItemReceive_validate_any_quantity(entry) ==
    LET base == base_quantity(entry.line_item, entry.quantity)
    IN  IF entry.serial_numbers # <<>>
                  /\ ~extract_serial_numbers(
                          Literals(entry.serial_numbers), expected_quantity(base),
                          base_part_get_latest_serial_number(base_part(entry.line_item))).ok
        THEN {"serial_numbers"}
        ELSE {}

\* PurchaseOrderLineItemReceiveSerializer.validate: the keys of the errors it
\* raises, none if the entry is valid
LineItemReceive_validate(entry) ==
    LET part == base_part(entry.line_item)
        base == base_quantity(entry.line_item, entry.quantity)
    IN  IF trackable(part) /\ ~is_integer(base)
        THEN {"quantity"}
        ELSE IF entry.serial_numbers # <<>>
                  /\ ~extract_serial_numbers(
                          Literals(entry.serial_numbers), expected_quantity(base),
                          base_part_get_latest_serial_number(base_part(entry.line_item))).ok
        THEN {"serial_numbers"}
        ELSE {}

\* the field validators of an entry, then its validate()
LineItemReceive_errors(entry) ==
    LET fields ==
            (IF LineItemReceive_validate_line_item(entry.line_item) THEN {} ELSE {"line_item"})
            \cup (IF LineItemReceive_validate_quantity(entry.quantity) THEN {} ELSE {"quantity"})
            \cup (IF LineItemReceive_validate_barcode(entry.barcode).ok THEN {} ELSE {"barcode"})
    IN  IF fields # {} THEN fields ELSE LineItemReceive_validate(entry)

\* the validated data of an entry: the barcode as validate_barcode returns
\* it, the serials as validate() extracts them (none: the empty list)
LineItemReceive_data(entry) ==
    [line_item |-> entry.line_item,
     location |-> entry.location,
     quantity |-> entry.quantity,
     barcode |-> LineItemReceive_validate_barcode(entry.barcode).barcode,
     serials |-> IF entry.serial_numbers # <<>>
                 THEN extract_serial_numbers(
                          Literals(entry.serial_numbers),
                          expected_quantity(
                              base_quantity(entry.line_item, entry.quantity)),
                          base_part_get_latest_serial_number(
                              base_part(entry.line_item))).serials
                 ELSE <<>>]

\* PurchaseOrderReceiveSerializer.validate, the loop over the items: an item
\* without a location takes the location of the request, then the
\* destination of its line
ResolveLocation(item, location) ==
    LET first == IF item.location = Null THEN location ELSE item.location
    IN  IF first = Null THEN get_destination(item.line_item) ELSE first

\* a validate() that compares no barcodes
RepeatsBarcode_never(items, k) == FALSE

\* PurchaseOrderReceiveSerializer.validate, the barcodes: is the barcode of
\* item k the barcode of an earlier item
RepeatsBarcode(items, k) ==
    /\ items[k].barcode # Null
    /\ \E j \in 1..(k - 1) : items[j].barcode = items[k].barcode

\* PurchaseOrderReceiveSerializer.validate: the keys of the error it raises,
\* none if the data is valid, and the items with their locations resolved
PurchaseOrderReceive_validate(data) ==
    LET items == data.items
        resolved == [k \in 1..Len(items) |->
                        [items[k] EXCEPT !.location = ResolveLocation(items[k], data.location)]]
    IN  IF Len(items) = 0
        THEN [errors |-> {"non_field_errors"}, items |-> items]
        ELSE IF \E k \in 1..Len(items) : resolved[k].location = Null
        THEN [errors |-> {"location"}, items |-> items]
        ELSE IF \E k \in 1..Len(items) : RepeatsBarcode(resolved, k)
        THEN [errors |-> {"non_field_errors"}, items |-> resolved]
        ELSE [errors |-> {}, items |-> resolved]

\* an order that receives in any status
can_receive_any_status == TRUE

\* the status of a purchase order that permits receipt
can_receive == order_status = "PLACED"

\* PurchaseOrder.receive_line_item: the order must be placed and the line its
\* own; one stock item per serial number, or one for the whole quantity, with
\* a serial number no stock item of the part has and a barcode no stock item
\* has; the line has received the quantity
receive_line_item(table, rcv, line, loc, q, barcode, serials) ==
    LET part == base_part(line)
        barcode_hash == IF barcode = Null THEN Null ELSE hash_barcode(barcode)
        rows == IF serials = <<>>
                THEN <<StockItem(part, Null, base_quantity(line, q), loc, barcode_hash)>>
                ELSE [k \in 1..Len(serials) |->
                         StockItem(part, serials[k], Decimal(1, 1), loc, barcode_hash)]
        ok == /\ can_receive
              /\ line \in OwnLines("PO")
              /\ barcode # Null => ~lookup_barcode(table, barcode_hash)
              /\ barcode # Null => Len(rows) = 1
              /\ serials # <<>> =>
                    \A k \in 1..Len(serials) :
                        ~\E item \in BagToSet(table) :
                            item.part = part /\ item.serial = serials[k]
    IN  [ok |-> ok,
         stock |-> InsertAll(table, rows),
         received |-> [rcv EXCEPT ![line] = @ + q],
         rows |-> rows]

\* PurchaseOrderReceiveSerializer.save, the loop over the items from item k on
RECURSIVE ReceiveItems(_, _, _, _, _, _)
ReceiveItems(items, location, k, table, rcv, created) ==
    IF k > Len(items)
    THEN [ok |-> TRUE, failed_at |-> 0, stock |-> table, received |-> rcv,
          created |-> created]
    ELSE LET item == items[k]
             dest == get_destination(item.line_item)
             loc == IF item.location # Null THEN item.location
                    ELSE IF dest # Null THEN dest ELSE location
             r == receive_line_item(table, rcv, item.line_item, loc,
                                    item.quantity, item.barcode, item.serials)
         IN  IF r.ok
             THEN ReceiveItems(items, location, k + 1, r.stock, r.received,
                               created \o r.rows)
             ELSE [ok |-> FALSE, failed_at |-> k, stock |-> table,
                   received |-> rcv, created |-> created]

\* the save that keeps what the items before the failing one have done
PurchaseOrderReceive_save_no_atomic(data) ==
    LET r == ReceiveItems(data.items, data.location, 1, stock, received, <<>>)
    IN  /\ stock' = r.stock
        /\ received' = r.received
        /\ response' = IF r.ok
                       THEN Accepted("receive", data, r.created)
                       ELSE Response("receive", "error", "save", "ValidationError",
                                     {"non_field_errors"}, r.failed_at, data, <<>>)
        /\ UNCHANGED <<order_kind, pack_quantity, line_items, order_status, so_state>>

\* PurchaseOrderReceiveSerializer.save: every item is received or none is
PurchaseOrderReceive_save(data) ==
    LET r == ReceiveItems(data.items, data.location, 1, stock, received, <<>>)
    IN  /\ stock' = IF r.ok THEN r.stock ELSE stock
        /\ received' = IF r.ok THEN r.received ELSE received
        /\ response' = IF r.ok
                       THEN Accepted("receive", data, r.created)
                       ELSE Response("receive", "error", "save", "ValidationError",
                                     {"non_field_errors"}, r.failed_at, data, <<>>)
        /\ UNCHANGED <<order_kind, pack_quantity, line_items, order_status, so_state>>

\* PurchaseOrderReceiveSerializer: is_valid() then save()
PurchaseOrderReceive(request) ==
    /\ order_kind = "PO"
    /\ IF \E k \in 1..Len(request.items) : LineItemReceive_errors(request.items[k]) # {}
       THEN /\ response' = Response("receive", "error", "validate", "ValidationError", {"items"}, 0,
                                     [initial_data |-> request,
                                      item_errors |-> [k \in 1..Len(request.items) |->
                                                          LineItemReceive_errors(request.items[k])]],
                                     <<>>)
            /\ UNCHANGED orderVars
       ELSE LET data == [items |-> [k \in 1..Len(request.items) |->
                                       LineItemReceive_data(request.items[k])],
                         location |-> request.location,
                         initial_data |-> request]
                v == PurchaseOrderReceive_validate(data)
            IN  IF v.errors # {}
                THEN /\ response' = Response("receive", "error", "validate",
                                              "ValidationError", v.errors, 0,
                                              [data EXCEPT !.items = v.items], <<>>)
                     /\ UNCHANGED orderVars
                ELSE PurchaseOrderReceive_save([data EXCEPT !.items = v.items])

(***************************************************************************)
(* ReturnOrderReceiveSerializer: receive items against a return order      *)
(***************************************************************************)
\* ReturnOrderReceiveSerializer.validate
ReturnOrderReceive_validate(data) ==
    /\ ~(order_status # "IN_PROGRESS")
    /\ ~(Len(data.items) = 0)

\* ReturnOrderLineItemReceiveSerializer.validate_line_item: the field of the
\* serializer is named item, so no request ever runs this validator
ReturnLineItemReceive_validate_line_item(item) ==
    /\ ~(item \notin OwnLines("RO"))
    /\ ~(received[item] > 0)

\* a receive_line_item that receives whatever line it is given
return_receive_line_item_any_line(rcv, line) ==
    [ok |-> order_status = "IN_PROGRESS",
     received |-> [rcv EXCEPT ![line] = @ + 1]]

\* ReturnOrder.receive_line_item: the order must be in progress, the line its
\* own and not yet received
return_receive_line_item(rcv, line) ==
    [ok |-> /\ order_status = "IN_PROGRESS"
            /\ line \in OwnLines("RO")
            /\ rcv[line] = 0,
     received |-> [rcv EXCEPT ![line] = @ + 1]]

\* ReturnOrderReceiveSerializer.save, the loop over the items from item k on
RECURSIVE ReturnItems(_, _, _)
ReturnItems(items, k, rcv) ==
    IF k > Len(items)
    THEN [ok |-> TRUE, failed_at |-> 0, received |-> rcv]
    ELSE LET r == return_receive_line_item(rcv, items[k].item)
         IN  IF r.ok
             THEN ReturnItems(items, k + 1, r.received)
             ELSE [ok |-> FALSE, failed_at |-> k, received |-> rcv]

\* ReturnOrderReceiveSerializer.save: the exception of receive_line_item is
\* not caught, the transaction is rolled back
ReturnOrderReceive_save(data) ==
    LET r == ReturnItems(data.items, 1, received)
    IN  /\ received' = IF r.ok THEN r.received ELSE received
        /\ response' = IF r.ok
                       THEN Accepted("receive", data, <<>>)
                       ELSE Response("receive", "error", "save", "DjangoValidationError",
                                     {}, r.failed_at, data, <<>>)
        /\ UNCHANGED <<order_kind, pack_quantity, line_items, order_status, stock, so_state>>

\* ReturnOrderReceiveSerializer: is_valid() then save()
ReturnOrderReceive(data) ==
    /\ order_kind = "RO"
    /\ IF ~ReturnOrderReceive_validate(data)
       THEN OrderRaise("receive", "validate", {"non_field_errors"})
       ELSE ReturnOrderReceive_save(data)

(***************************************************************************)
(* PurchaseOrderLineItemSerializer: the line item endpoint                 *)
(***************************************************************************)
\* PurchaseOrderStatusGroups.OPEN
PurchaseOrderStatusGroups_OPEN == {"PENDING", "PLACED"}

\* the supplier parts a line item can name: sp1 is of the supplier of the
\* order, sp2 of another supplier
SupplierParts == {"sp1", "sp2"}

supplier(part) == IF part = "sp1" THEN "supplier1" ELSE "supplier2"

\* purchase_order.supplier
order_supplier == "supplier1"

\* Meta.fields, the fields a request can write
LineItem_fields == {"quantity", "reference", "notes", "order", "part",
                    "purchase_price", "purchase_price_currency", "destination",
                    "target_date", "link"}

\* PurchaseOrderLineItemSerializer.validate_quantity
LineItem_validate_quantity(q) == ~(q <= 0)

\* PurchaseOrderLineItemSerializer.validate_purchase_order
LineItem_validate_purchase_order(purchase_order) ==
    ~(order_status \notin PurchaseOrderStatusGroups_OPEN)

\* the validate_<name> methods of the serializer, by the name of the field
\* each one validates
LineItem_validators(data) ==
    [quantity |-> LineItem_validate_quantity(data.quantity),
     purchase_order |-> LineItem_validate_purchase_order(data.order)]

\* the field validators is_valid() runs: validate_<name> for each field
\* <name> of the serializer that has one
LineItem_field_errors(data) ==
    {name \in LineItem_fields \cap DOMAIN LineItem_validators(data) :
        ~LineItem_validators(data)[name]}

\* PurchaseOrderLineItemSerializer.validate: the keys of the errors it raises
LineItem_validate(data) ==
    IF data.part = Null THEN {"part"}
    ELSE IF data.order = Null THEN {"order"}
    ELSE IF supplier(data.part) # order_supplier THEN {"part", "order"}
    ELSE {}

\* is_valid(): the field validators, then validate()
LineItem_errors(data) ==
    IF LineItem_field_errors(data) # {}
    THEN LineItem_field_errors(data)
    ELSE LineItem_validate(data)

\* a row of the PurchaseOrderLineItem table
PurchaseOrderLineItem(data) ==
    [order |-> data.order, part |-> data.part, quantity |-> data.quantity]

\* a request the serializer refuses
LineItemRaise(op, data) ==
    /\ response' = Response(op, "error", "validate", "ValidationError",
                            LineItem_errors(data), 0, data, <<>>)
    /\ UNCHANGED orderVars

\* POST: is_valid() then save(), which makes the line item
LineItemCreate(data) ==
    /\ order_kind = "PO"
    /\ IF LineItem_errors(data) # {}
       THEN LineItemRaise("line_create", data)
       ELSE /\ line_items' = Append(line_items, PurchaseOrderLineItem(data))
            /\ response' = Accepted("line_create", data, <<PurchaseOrderLineItem(data)>>)
            /\ UNCHANGED <<order_kind, pack_quantity, order_status, received, stock, so_state>>

\* PUT on line item k: is_valid() then save(), which writes the line item
LineItemUpdate(k, data) ==
    /\ order_kind = "PO"
    /\ k \in 1..Len(line_items)
    /\ IF LineItem_errors(data) # {}
       THEN LineItemRaise("line_update", data)
       ELSE /\ line_items' = [line_items EXCEPT ![k] = PurchaseOrderLineItem(data)]
            /\ response' = Accepted("line_update", data, <<>>)
            /\ UNCHANGED <<order_kind, pack_quantity, order_status, received, stock, so_state>>

(***************************************************************************)
(* SpecOrder: any sequence of requests on one order of one family          *)
(***************************************************************************)
\* receipts are served while the purchase order has received less than this
MaxReceived == 2

\* the line items of the family, those of the other order included
AllLines(kind) ==
    IF kind = "PO" THEN PurchaseOrderLineItems
    ELSE IF kind = "RO" THEN ReturnOrderLineItems
    ELSE {}

RECURSIVE SumReceived(_, _)
SumReceived(rcv, lines) ==
    IF lines = {} THEN 0
    ELSE LET line == CHOOSE l \in lines : TRUE
         IN  rcv[line] + SumReceived(rcv, lines \ {line})

TotalReceived == SumReceived(received, DOMAIN received)

\* the entries of a receipt that pass validation on a fresh order
ReceiveEntries ==
    {[line_item |-> "pl1", location |-> loc, quantity |-> 1,
      serial_numbers |-> sn, barcode |-> ""] :
        loc \in {Null, "locA"}, sn \in {<<>>, <<"1">>}}
    \cup {[line_item |-> "pl2", location |-> Null, quantity |-> q,
           serial_numbers |-> <<>>, barcode |-> ""] : q \in 1..MaxQty}
    \cup {[line_item |-> "pl2", location |-> Null, quantity |-> 1,
           serial_numbers |-> <<>>, barcode |-> "X"]}

\* entries that do not: the line of another order, no quantity, a barcode in
\* use, serial numbers that are not as many as the quantity or not distinct
BadReceiveEntries ==
    {[line_item |-> "pl3", location |-> "locA", quantity |-> 1,
      serial_numbers |-> <<>>, barcode |-> ""],
     [line_item |-> "pl2", location |-> "locA", quantity |-> 0,
      serial_numbers |-> <<>>, barcode |-> ""],
     [line_item |-> "pl2", location |-> "locA", quantity |-> 1,
      serial_numbers |-> <<>>, barcode |-> "Y"],
     [line_item |-> "pl1", location |-> "locA", quantity |-> 2,
      serial_numbers |-> <<"1">>, barcode |-> ""],
     [line_item |-> "pl1", location |-> "locA", quantity |-> 2,
      serial_numbers |-> <<"1", "1">>, barcode |-> ""]}

\* the entries of the batches of more than one entry: a serial number, and a
\* barcode on an entry with no location of its own
BatchEntries ==
    {[line_item |-> "pl1", location |-> "locA", quantity |-> 1,
      serial_numbers |-> <<"1">>, barcode |-> ""],
     [line_item |-> "pl2", location |-> Null, quantity |-> 1,
      serial_numbers |-> <<>>, barcode |-> "X"]}

ReceiveRequests ==
    [items : SeqsUpTo(BatchEntries, MaxBatch)
                \cup {<<e>> : e \in ReceiveEntries \cup BadReceiveEntries},
     location : {Null, "locB"}]

ReturnRequests ==
    [items : SeqsUpTo([item : ReturnOrderLineItems], MaxBatch)]

\* the stock before the order: one item, its barcode assigned
InitialStock ==
    SetToBag({StockItem("bulk", Null, Decimal(1, 1), "locD", hash_barcode("Y"))})

\* the pack sizes of the supplier parts: pl1 is sold by the unit or by the
\* half unit, pl2 by the pair
PackQuantities ==
    {[line \in PurchaseOrderLineItems |->
        IF line = "pl1" THEN p ELSE IF line = "pl2" THEN Decimal(2, 1) ELSE Decimal(1, 1)] :
            p \in {Decimal(1, 1), Decimal(1, 2)}}

InitOrder ==
    /\ NoTasks
    /\ order_kind \in OrderKinds
    /\ pack_quantity \in IF order_kind = "PO" THEN PackQuantities ELSE {<<>>}
    /\ line_items = <<>>
    /\ order_status = "PENDING"
    /\ received = [line \in AllLines(order_kind) |-> 0]
    /\ stock = InitialStock
    /\ so_state \in IF order_kind = "SO"
                    THEN [lines_complete : BOOLEAN, pending_shipments : BOOLEAN]
                    ELSE {Null}
    /\ quantity = [i \in StockItems |-> 1]
    /\ allocations = EmptyBag
    /\ shipment_date = [s \in Shipments |-> Null]
    /\ response = NoResponse
    /\ NoWorkers

PurchaseOrderIssueRequest ==
    PurchaseOrderIssue /\ UNCHANGED <<ledgerVars, concVars, taskVars>>

PurchaseOrderCompleteRequest ==
    \E accept_incomplete \in BOOLEAN :
        PurchaseOrderComplete(accept_incomplete) /\ UNCHANGED <<ledgerVars, concVars, taskVars>>

PurchaseOrderCancelRequest ==
    PurchaseOrderCancel /\ UNCHANGED <<ledgerVars, concVars, taskVars>>

PurchaseOrderReceiveRequest ==
    /\ order_kind = "PO"
    /\ TotalReceived < MaxReceived
    /\ \E request \in ReceiveRequests :
        PurchaseOrderReceive(request) /\ UNCHANGED <<ledgerVars, concVars, taskVars>>

SalesOrderIssueRequest ==
    SalesOrderIssue /\ UNCHANGED <<ledgerVars, concVars, taskVars>>

SalesOrderCompleteRequest ==
    \E accept_incomplete \in BOOLEAN :
        SalesOrderComplete(accept_incomplete) /\ UNCHANGED <<ledgerVars, concVars, taskVars>>

SalesOrderCancelRequest ==
    SalesOrderCancel /\ UNCHANGED <<ledgerVars, concVars, taskVars>>

ReturnOrderIssueRequest ==
    ReturnOrderIssue /\ UNCHANGED <<ledgerVars, concVars, taskVars>>

ReturnOrderCompleteRequest ==
    ReturnOrderComplete /\ UNCHANGED <<ledgerVars, concVars, taskVars>>

ReturnOrderCancelRequest ==
    ReturnOrderCancel /\ UNCHANGED <<ledgerVars, concVars, taskVars>>

ReturnOrderReceiveRequest ==
    \E data \in ReturnRequests :
        ReturnOrderReceive(data) /\ UNCHANGED <<ledgerVars, concVars, taskVars>>

NextOrder ==
    \/ PurchaseOrderIssueRequest
    \/ PurchaseOrderCompleteRequest
    \/ PurchaseOrderCancelRequest
    \/ PurchaseOrderReceiveRequest
    \/ SalesOrderIssueRequest
    \/ SalesOrderCompleteRequest
    \/ SalesOrderCancelRequest
    \/ ReturnOrderIssueRequest
    \/ ReturnOrderCompleteRequest
    \/ ReturnOrderCancelRequest
    \/ ReturnOrderReceiveRequest

SpecOrder == InitOrder /\ [][NextOrder]_vars

(***************************************************************************)
(* SpecBarcode: purchase receipts and barcode assignments                  *)
(***************************************************************************)
\* the barcodes a request can carry: X is free, Y is assigned from the start
Barcodes == {"X", "Y"}

\* StockItem.assign_barcode: the row of the stock item with the hash
assign_barcode(table, item, barcode_hash) ==
    (table (-) SetToBag({item}))
        (+) SetToBag({[item EXCEPT !.barcode_hash = barcode_hash]})

\* an assignment that does not look the barcode up
BarcodeAssign_no_lookup(barcode, item) ==
    /\ stock' = assign_barcode(stock, item, hash_barcode(barcode))
    /\ response' = Accepted("assign", [barcode |-> barcode, stockitem |-> item], <<>>)
    /\ UNCHANGED <<order_kind, pack_quantity, line_items, order_status, received, so_state>>

\* the barcode-link endpoint: a barcode whose hash a stock item has is
\* refused, any other is assigned to the stock item
BarcodeAssign(barcode, item) ==
    IF lookup_barcode(stock, hash_barcode(barcode))
    THEN /\ response' = Response("assign", "error", "validate", "ValidationError",
                                 {"error"}, 0,
                                 [barcode |-> barcode, stockitem |-> item], <<>>)
         /\ UNCHANGED orderVars
    ELSE /\ stock' = assign_barcode(stock, item, hash_barcode(barcode))
         /\ response' = Accepted("assign", [barcode |-> barcode, stockitem |-> item], <<>>)
         /\ UNCHANGED <<order_kind, pack_quantity, line_items, order_status, received, so_state>>

InitBarcode ==
    /\ InitOrder
    /\ order_kind = "PO"

BarcodeAssignRequest ==
    \E barcode \in Barcodes, item \in BagToSet(stock) :
        BarcodeAssign(barcode, item) /\ UNCHANGED <<ledgerVars, concVars, taskVars>>

NextBarcode ==
    \/ PurchaseOrderIssueRequest
    \/ PurchaseOrderReceiveRequest
    \/ BarcodeAssignRequest

SpecBarcode == InitBarcode /\ [][NextBarcode]_vars

(***************************************************************************)
(* SpecLineItem: the life of a purchase order and its line item endpoint   *)
(***************************************************************************)
\* line items are made while the endpoint has made fewer than this
MaxLines == 2

\* the requests of the line item endpoint: the order or none, a supplier
\* part or none, a quantity
LineItemRequests ==
    [order : {"po", Null}, part : SupplierParts \cup {Null}, quantity : 0..MaxQty]

InitLineItem == InitOrder /\ order_kind = "PO"

LineItemCreateRequest ==
    /\ Len(line_items) < MaxLines
    /\ \E data \in LineItemRequests : LineItemCreate(data)
    /\ UNCHANGED <<ledgerVars, concVars, taskVars>>

LineItemUpdateRequest ==
    /\ \E k \in 1..Len(line_items), data \in LineItemRequests : LineItemUpdate(k, data)
    /\ UNCHANGED <<ledgerVars, concVars, taskVars>>

NextLineItem ==
    \/ PurchaseOrderIssueRequest
    \/ PurchaseOrderCompleteRequest
    \/ PurchaseOrderCancelRequest
    \/ LineItemCreateRequest
    \/ LineItemUpdateRequest

SpecLineItem == InitLineItem /\ [][NextLineItem]_vars

(***************************************************************************)
(* SpecSerial: calls of the serial number extractor                        *)
(***************************************************************************)
\* a spec has at most this many tokens
MaxTokens == 2

\* at most this many serial numbers are expected
MaxExpected == 4

\* the latest serial number is at most this
MaxHint == 3

\* the tokens of the specs: serial numbers, a word, ranges that ascend,
\* descend or have a side that is no integer, increments with and without a
\* count, and the placeholder forms
SerialTokens ==
    {Literal("1"), Literal("2"), Literal("3"), Literal("~"),
     RangeToken("1", "3"), RangeToken("3", "1"), RangeToken("A", "2"),
     Increment("2", ""), Increment("1", "1"),
     Increment("~", ""), Increment("~", "0"), Increment("~", "1")}

ExtractRequests ==
    [tokens : SeqsUpTo(SerialTokens, MaxTokens),
     expected_quantity : 0..MaxExpected,
     starting_value : 0..MaxHint]

\* one caller, about to call the extractor with some arguments
InitSerial ==
    /\ NoTasks
    /\ InitLedger
    /\ NoOrder
    /\ pc = [caller |-> "call"]
    /\ req \in [caller : ExtractRequests]

\* a call of extract_serial_numbers: the serial numbers, or a validation
\* error
ExtractSerialNumbers(call) ==
    LET x == extract_serial_numbers(call.tokens, call.expected_quantity,
                                    call.starting_value)
    IN  /\ response' = IF x.ok
                       THEN Accepted("extract", call, x.serials)
                       ELSE Response("extract", "error", "validate", "ValidationError",
                                     {}, 0, call, <<>>)
        /\ UNCHANGED <<ledgerVars, orderVars, taskVars>>

ExtractSerialNumbersRequest ==
    /\ pc.caller = "call"
    /\ ExtractSerialNumbers(req.caller)
    /\ pc' = [caller |-> "done"]
    /\ req' = req

NextSerial == ExtractSerialNumbersRequest

SpecSerial == InitSerial /\ [][NextSerial]_vars

(***************************************************************************)
(* SpecSave: the endpoints that receive or allocate, on one order of any   *)
(* kind, each answer as the exception handler hands it to the caller       *)
(***************************************************************************)
SalesOrderAllocateRequest ==
    /\ order_kind = "SO"
    /\ \E data \in AllocationRequests :
          AllocateItems(TheOrder, data) /\ UNCHANGED <<concVars, orderVars, taskVars>>

SalesOrderSerialAllocateRequest ==
    /\ order_kind = "SO"
    /\ \E data \in SerialRequests :
          AllocateSerials(TheOrder, data) /\ UNCHANGED <<concVars, orderVars, taskVars>>

NextSave ==
    \/ PurchaseOrderIssueRequest
    \/ PurchaseOrderReceiveRequest
    \/ ReturnOrderIssueRequest
    \/ ReturnOrderReceiveRequest
    \/ SalesOrderAllocateRequest
    \/ SalesOrderSerialAllocateRequest

SpecSave == InitOrder /\ [][NextSave]_vars

(***************************************************************************)
(* order.tasks: the daily checks for orders that have just become overdue  *)
(* (src/InvenTree/order/tasks.py).  The notification sink and the plugin   *)
(* event bus are not under src/ and follow spec.md 6.                      *)
(***************************************************************************)
\* the days of the model are 1..MaxDay
MaxDay == 3

\* order.models.PurchaseOrder.objects and order.models.SalesOrder.objects
PurchaseOrder_objects == {"po1", "po2"}
SalesOrder_objects == {"so3"}

\* an order without a target date
NoDate == -1

\* the target dates an order is given
TargetDates == {NoDate} \cup 1..(MaxDay - 1)

\* SalesOrderStatusGroups.OPEN
SalesOrderStatusGroups_OPEN == {"PENDING", "IN_PROGRESS"}

\* the status an issued order takes next: complete or shipped
NextStatus(o, status) ==
    IF o \in PurchaseOrder_objects
    THEN CASE status = "PLACED" -> {"COMPLETE"}
           [] OTHER -> {}
    ELSE CASE status = "IN_PROGRESS" -> {"SHIPPED"}
           [] OTHER -> {}

\* the two daily tasks
DailyTasks == {"check_overdue_purchase_orders", "check_overdue_sales_orders"}

\* what may fail inside the two calls made for one order
Failures == [notification : BOOLEAN, event : BOOLEAN]

\* a sink whose failure reaches the caller
trigger_notification_raises(obj, day, fails) ==
    [raised |-> fails, log |-> {[order |-> obj, day |-> day]}]

\* common.notifications.trigger_notification: fire-and-forget, a delivery
\* that fails is lost and the failure stays inside the sink
trigger_notification(obj, day, fails) ==
    [raised |-> FALSE, log |-> {[order |-> obj, day |-> day]}]

\* plugin.events.trigger_event: the same contract
trigger_event(obj, day, fails) ==
    [raised |-> FALSE, log |-> {[order |-> obj, day |-> day]}]

\* notify_overdue_purchase_order: trigger_notification, then trigger_event;
\* an exception of the first call leaves the second one out
notify_overdue_purchase_order(po, day, fails) ==
    LET n == trigger_notification(po, day, fails.notification)
        e == trigger_event(po, day, fails.event)
    IN  IF n.raised
        THEN [raised |-> TRUE, notifications |-> n.log, events |-> {}]
        ELSE [raised |-> e.raised, notifications |-> n.log, events |-> e.log]

\* notify_overdue_sales_order
notify_overdue_sales_order(so, day, fails) ==
    LET n == trigger_notification(so, day, fails.notification)
        e == trigger_event(so, day, fails.event)
    IN  IF n.raised
        THEN [raised |-> TRUE, notifications |-> n.log, events |-> {}]
        ELSE [raised |-> e.raised, notifications |-> n.log, events |-> e.log]

\* the orders of a queryset in the order the loop takes them
Orderings(S) == {q \in [1..Cardinality(S) -> S] : Range(q) = S}

\* for po in overdue_orders: the entries the loop gets to, up to and with the
\* first one that raises
Reached(raised) ==
    {k \in DOMAIN raised : \A j \in 1..(k - 1) : ~raised[j]}

\* a check that takes every open order with a target date in the past
check_overdue_purchase_orders_any_past_date ==
    /\ ~ran_today["check_overdue_purchase_orders"]
    /\ LET yesterday == today - 1
           overdue_orders == {po \in PurchaseOrder_objects :
                                 /\ task_orders[po].target_date # NoDate
                                 /\ task_orders[po].target_date <= yesterday
                                 /\ task_orders[po].status \in PurchaseOrderStatusGroups_OPEN}
       IN  \E queryset \in Orderings(overdue_orders), fails \in [overdue_orders -> Failures] :
              LET r == [k \in DOMAIN queryset |->
                           notify_overdue_purchase_order(queryset[k], today, fails[queryset[k]])]
                  reached == Reached([k \in DOMAIN queryset |-> r[k].raised])
              IN  /\ notifications' = notifications (+) SetToBag(UNION {r[k].notifications : k \in reached})
                  /\ events' = events (+) SetToBag(UNION {r[k].events : k \in reached})
                  /\ failed' = {o \in overdue_orders :
                                    fails[o].notification \/ fails[o].event}
    /\ ran_today' = [ran_today EXCEPT !["check_overdue_purchase_orders"] = TRUE]
    /\ UNCHANGED <<today, task_orders, ledgerVars, response, concVars, orderVars>>

\* check_overdue_purchase_orders, a run of the daily task: the open orders
\* whose target date was yesterday are notified one after the other
check_overdue_purchase_orders ==
    /\ ~ran_today["check_overdue_purchase_orders"]
    /\ LET yesterday == today - 1
           overdue_orders == {po \in PurchaseOrder_objects :
                                 /\ task_orders[po].target_date = yesterday
                                 /\ task_orders[po].status \in PurchaseOrderStatusGroups_OPEN}
       IN  \E queryset \in Orderings(overdue_orders), fails \in [overdue_orders -> Failures] :
              LET r == [k \in DOMAIN queryset |->
                           notify_overdue_purchase_order(queryset[k], today, fails[queryset[k]])]
                  reached == Reached([k \in DOMAIN queryset |-> r[k].raised])
              IN  /\ notifications' = notifications (+) SetToBag(UNION {r[k].notifications : k \in reached})
                  /\ events' = events (+) SetToBag(UNION {r[k].events : k \in reached})
                  /\ failed' = {o \in overdue_orders :
                                    fails[o].notification \/ fails[o].event}
    /\ ran_today' = [ran_today EXCEPT !["check_overdue_purchase_orders"] = TRUE]
    /\ UNCHANGED <<today, task_orders, ledgerVars, response, concVars, orderVars>>

\* check_overdue_sales_orders, a run of the daily task
check_overdue_sales_orders ==
    /\ ~ran_today["check_overdue_sales_orders"]
    /\ LET yesterday == today - 1
           overdue_orders == {so \in SalesOrder_objects :
                                 /\ task_orders[so].target_date = yesterday
                                 /\ task_orders[so].status \in SalesOrderStatusGroups_OPEN}
       IN  \E queryset \in Orderings(overdue_orders), fails \in [overdue_orders -> Failures] :
              LET r == [k \in DOMAIN queryset |->
                           notify_overdue_sales_order(queryset[k], today, fails[queryset[k]])]
                  reached == Reached([k \in DOMAIN queryset |-> r[k].raised])
              IN  /\ notifications' = notifications (+) SetToBag(UNION {r[k].notifications : k \in reached})
                  /\ events' = events (+) SetToBag(UNION {r[k].events : k \in reached})
                  /\ failed' = {o \in overdue_orders :
                                    fails[o].notification \/ fails[o].event}
    /\ ran_today' = [ran_today EXCEPT !["check_overdue_sales_orders"] = TRUE]
    /\ UNCHANGED <<today, task_orders, ledgerVars, response, concVars, orderVars>>

\* midnight
NextDay ==
    /\ today < MaxDay
    /\ today' = today + 1
    /\ ran_today' = [task \in DailyTasks |-> FALSE]
    /\ UNCHANGED <<task_orders, notifications, events, failed,
                   ledgerVars, response, concVars, orderVars>>

\* the order serializers: target_date is a field a user may write; the
\* order is moved to today or to a later day
SetTargetDate ==
    \E o \in DOMAIN task_orders, date \in TargetDates :
        /\ date >= today
        /\ task_orders' = [task_orders EXCEPT ![o].target_date = date]
        /\ UNCHANGED <<today, notifications, events, ran_today, failed,
                       ledgerVars, response, concVars, orderVars>>

\* the issue, complete and ship endpoints: the order takes its next status
OrderTransition ==
    \E o \in DOMAIN task_orders :
        \E status \in NextStatus(o, task_orders[o].status) :
            /\ task_orders' = [task_orders EXCEPT ![o].status = status]
            /\ UNCHANGED <<today, notifications, events, ran_today, failed,
                           ledgerVars, response, concVars, orderVars>>

(***************************************************************************)
(* SpecOverdue: days pass, orders are re-dated and move on, and each daily *)
(* task runs at most once a day                                            *)
(***************************************************************************)
InitOverdue ==
    /\ quantity = [i \in StockItems |-> 1]
    /\ allocations = EmptyBag
    /\ shipment_date = [s \in Shipments |-> Null]
    /\ response = NoResponse
    /\ NoWorkers
    /\ NoOrder
    /\ today = 1
    /\ task_orders \in {t \in [PurchaseOrder_objects \cup SalesOrder_objects ->
                                  [target_date : TargetDates,
                                   status : {"PLACED", "IN_PROGRESS"}]] :
                             \A o \in DOMAIN t :
                                 t[o].status = "PLACED" <=> o \in PurchaseOrder_objects}
    /\ notifications = EmptyBag
    /\ events = EmptyBag
    /\ ran_today = [task \in DailyTasks |-> FALSE]
    /\ failed = {}

NextOverdue ==
    \/ check_overdue_purchase_orders
    \/ check_overdue_sales_orders
    \/ NextDay
    \/ SetTargetDate
    \/ OrderTransition

SpecOverdue == InitOverdue /\ [][NextOverdue]_vars

(***************************************************************************)
(* SpecHandler: one exception of a view, on one request path, under one    *)
(* setting of TESTING and DEBUG, is handed to the exception handler        *)
(***************************************************************************)
\* exceptions of views: validation errors with and without a message map,
\* other exceptions of the REST framework, and errors of the program
Exceptions ==
    [class : {"ValidationError", "DjangoValidationError"},
     message : {"invalid"}, keys : {{}, {"quantity"}, {"__all__"}}]
    \cup [class : {"NotFound", "ValueError", "IntegrityError"},
          message : {"no such row", "duplicate key"}, keys : {{}}]

\* context['request'].path
Paths == {"/api/order/po/1/receive/", "/api/order/so/1/allocate/"}

HandlerCalls == [exc : Exceptions, path : Paths, settings : Settings]

InitHandler ==
    /\ InitLedger
    /\ NoOrder
    /\ NoTasks
    /\ pc = [caller |-> "call"]
    /\ req \in [caller : HandlerCalls]

\* the view raises and the REST framework calls the handler
HandleException(call) ==
    /\ response' = [Response("handle", "error", "view", call.exc.class, call.exc.keys,
                              0, call, <<>>)
                     EXCEPT !.handled = exception_handler(call.exc, call.path, call.settings)]
    /\ UNCHANGED <<ledgerVars, orderVars, taskVars>>

HandleExceptionRequest ==
    /\ pc.caller = "call"
    /\ HandleException(req.caller)
    /\ pc' = [caller |-> "done"]
    /\ req' = req

NextHandler == HandleExceptionRequest

SpecHandler == InitHandler /\ [][NextHandler]_vars

(***************************************************************************)
(* ci/version_check.py: the check of the version number of a build         *)
(* (src/ci/version_check.py)                                               *)
(***************************************************************************)
\* the texts of INVENTREE_SW_VERSION and of tags, with what the pattern
\* ^(\d+)\.(\d+)\.(\d+)(?: dev)?$ finds in them: no match, or the three
\* numbers
VersionStrings == {"0.12.0", "0.12.1", "0.13.0 dev", "v0.12"}

version_match(version_string) ==
    CASE version_string = "0.12.0" -> <<0, 12, 0>>
      [] version_string = "0.12.1" -> <<0, 12, 1>>
      [] version_string = "0.13.0 dev" -> <<0, 13, 0>>
      [] OTHER -> <<>>

\* release > version_tuple, on lists of three numbers
list_gt(release, version_tuple) ==
    \E k \in 1..Len(release) :
        /\ release[k] > version_tuple[k]
        /\ \A j \in 1..(k - 1) : release[j] = version_tuple[j]

\* check_version_number: ValueError for a version string that does not match
\* the pattern or for a duplicate release, else is this the highest release;
\* `existing` is what get_existing_release_tags() returns
check_version_number(version_string, allow_duplicate, existing) ==
    LET version_tuple == version_match(version_string)
    IN  IF version_tuple = <<>> THEN [raised |-> TRUE, highest_release |-> FALSE]
        ELSE IF \E release \in existing : release = version_tuple /\ ~allow_duplicate
        THEN [raised |-> TRUE, highest_release |-> FALSE]
        ELSE [raised |-> FALSE,
              highest_release |-> ~\E release \in existing : list_gt(release, version_tuple)]

\* GITHUB_REF.split('/')[-1], GITHUB_REF as the list of its parts
version_tag(GITHUB_REF) == GITHUB_REF[Len(GITHUB_REF)]

\* the docker tags a run writes to GITHUB_ENV, none if the run fails
main_docker_tags(env, version, existing) ==
    LET allow_duplicate == env.GITHUB_REF_TYPE = "tag" \/ env.GITHUB_BASE_REF = "stable"
        c == check_version_number(version, allow_duplicate, existing)
    IN  IF c.raised THEN <<>>
        ELSE IF env.GITHUB_REF_TYPE = "tag"
        THEN IF c.highest_release
             THEN <<version_tag(env.GITHUB_REF), "stable">>
             ELSE <<version_tag(env.GITHUB_REF)>>
        ELSE IF env.GITHUB_REF_TYPE = "branch" THEN <<"latest">>
        ELSE <<>>

\* the script: the run fails if check_version_number raises or the ref type
\* is unknown; a version that differs from the tag is printed and the run
\* goes on (sys.exit is named, not called)
main(env, version, existing) ==
    LET docker_tags == main_docker_tags(env, version, existing)
    IN  /\ response' = IF docker_tags = <<>>
                       THEN [Response("version_check", "error", "main", "SystemExit", {}, 0,
                                      [env |-> env, version |-> version,
                                       existing |-> existing], <<>>)
                             EXCEPT !.handled = NotRaised]
                       ELSE Accepted("version_check",
                                     [env |-> env, version |-> version, existing |-> existing],
                                     docker_tags)
        /\ UNCHANGED <<ledgerVars, orderVars, taskVars>>

(***************************************************************************)
(* SpecVersion: one run of the version check, on any build                 *)
(***************************************************************************)
\* the environment of the build
Environments ==
    [GITHUB_REF_TYPE : {"tag", "branch", "pull_request"},
     GITHUB_REF : {<<"refs", "tags", "0.12.0">>, <<"refs", "tags", "0.12.1">>,
                   <<"refs", "heads", "master">>},
     GITHUB_BASE_REF : {"", "stable"}]

\* what get_existing_release_tags() returns
ExistingReleases == SUBSET {<<0, 12, 0>>, <<0, 12, 1>>}

VersionChecks == [env : Environments, version : VersionStrings, existing : ExistingReleases]

InitVersion ==
    /\ InitLedger
    /\ NoOrder
    /\ NoTasks
    /\ pc = [caller |-> "call"]
    /\ req \in [caller : VersionChecks]

VersionCheckRun ==
    /\ pc.caller = "call"
    /\ main(req.caller.env, req.caller.version, req.caller.existing)
    /\ pc' = [caller |-> "done"]
    /\ req' = req

NextVersion == VersionCheckRun

SpecVersion == InitVersion /\ [][NextVersion]_vars

(***************************************************************************)
(* Claims about the allocation ledger                                      *)
(***************************************************************************)
\* the total quantity allocated on a stock item, over every allocation row
AllocatedOnItem(item) ==
    SumQuantity(allocations, {a \in BagToSet(allocations) : a.item = item})

\* the total quantity allocated to a line item
AllocatedToLine(line) ==
    SumQuantity(allocations, {a \in BagToSet(allocations) : a.line = line})

\* the number of allocation rows on a stock item in shipments not yet shipped
OpenRowCount(item) ==
    BagCardinality([a \in OpenAllocations(allocations, item) |-> allocations[a]])

\* C1: after any sequence of allocation requests handled one after the other
\* (item allocation and serial allocation, accepted or rejected), the
\* quantities of the allocations of every stock item sum to at most the
\* quantity of the stock item.
C1_NoOverAllocation ==
    \A item \in StockItems : AllocatedOnItem(item) <= quantity[item]

\* C1 witness: the bulk item is allocated to the full by more than one row, a
\* serialized item is allocated, and the last request was refused inside save()
\* because its second entry asked for more than was left.
C1_Witness ==
    /\ AllocatedOnItem("b1") = quantity["b1"]
    /\ BagCardinality(allocations) >= 3
    /\ AllocatedOnItem("s1") = 1
    /\ response.op = "allocate"
    /\ response.status = "error"
    /\ response.failed_at = 2

\* C3: every stock item with a serial number has quantity 1 and at most one
\* allocation that is not consumed, and no allocation of a serialized item has
\* a quantity other than 1 (a request for another quantity is rejected).
C3_SerializedStock ==
    \A item \in StockItems :
        serialized(item) =>
            /\ quantity[item] = 1
            /\ OpenRowCount(item) <= 1
            /\ \A a \in BagToSet(allocations) : a.item = item => a.quantity = 1

\* C3 witness: one serialized item is allocated by an item request, the other
\* by a serial request, and a further serial request has just been rejected.
C3_Witness ==
    /\ OpenRowCount("s1") = 1
    /\ OpenRowCount("s2") = 1
    /\ response.op = "allocate_serials"
    /\ response.status = "error"
    /\ response.errors = {"serial_numbers"}

\* C8 (as claimed): the total quantity allocated to a sales order line item is
\* at most the quantity the line item asks for.
C8_LineNotOverAllocated ==
    \A line \in Lines : AllocatedToLine(line) <= line_quantity(line)

\* the rows a request asks for, in the order the caller lists them
RequestedRows(data) ==
    [k \in 1..Len(data.items) |-> AllocationRow(data.items[k], data.shipment)]

RequestedSerialRows(data) ==
    [k \in 1..Len(data.serial_numbers) |->
        [line |-> data.line_item,
         item |-> CHOOSE i \in StockItems : serial(i) = data.serial_numbers[k],
         quantity |-> 1, shipment |-> data.shipment]]

\* the total quantity allocated on a stock item in shipments not yet shipped
OpenAllocatedOnItem(item) ==
    SumQuantity(allocations, OpenAllocations(allocations, item))

\* entry k of an item request cannot be granted: with the entries before it, it
\* asks for more of its stock item than is unallocated
EntryExceeds(data, k) ==
    LET item == data.items[k].stock_item
        RECURSIVE Asked(_)
        Asked(js) == IF js = {} THEN 0
                     ELSE LET j == CHOOSE x \in js : TRUE
                          IN  data.items[j].quantity + Asked(js \ {j})
    IN  OpenAllocatedOnItem(item)
            + Asked({j \in 1..k : data.items[j].stock_item = item}) > quantity[item]

\* a serial number of a serial request cannot be granted: no stock item of
\* quantity 1 carries it, or the stock item is already allocated
SerialRefused(sn) ==
    \/ \A i \in StockItems : serial(i) # sn \/ quantity[i] # 1
    \/ \E i \in StockItems : serial(i) = sn /\ OpenAllocatedOnItem(i) >= 1

\* an entry of the accepted request could not be granted in the state before
Refused(op, data) ==
    IF op = "allocate"
    THEN \E k \in DOMAIN data.items : EntryExceeds(data, k)
    ELSE \E k \in DOMAIN data.serial_numbers : SerialRefused(data.serial_numbers[k])

\* C9: an allocation request (a list of stock items or a list of serial
\* numbers) either persists one allocation per entry, in the order the caller
\* gave, or persists none; it persists none when an entry cannot be granted.
C9_BatchAllOrNothing ==
    [][ response'.op \in {"allocate", "allocate_serials"} =>
            IF response'.status = "ok"
            THEN /\ response'.created =
                        IF response'.op = "allocate"
                        THEN RequestedRows(response'.data)
                        ELSE RequestedSerialRows(response'.data)
                 /\ allocations' = InsertAll(allocations, response'.created)
                 /\ ~Refused(response'.op, response'.data)
            ELSE allocations' = allocations
      ]_vars

\* C9 witness: a request of two entries was refused inside save() at its second
\* entry, after its first entry had been created in the transaction.
C9_Witness ==
    /\ response.op = "allocate"
    /\ response.stage = "save"
    /\ response.status = "error"
    /\ response.failed_at = 2
    /\ BagCardinality(allocations) >= 1

\* C10: an accepted allocation leaves the quantity of every stock item as it
\* was; a stock quantity changes only in a step that completes a shipment.
C10_AllocationKeepsStock ==
    [][ /\ response'.op \in {"allocate", "allocate_serials"} => quantity' = quantity
        /\ quantity' # quantity =>
              /\ response'.op = "ship"
              /\ response'.status = "ok"
              /\ \E sh \in Shipments :
                    shipment_date[sh] = Null /\ shipment_date'[sh] # Null
      ]_vars

\* C10 witness: an item allocation and a serial allocation have been accepted,
\* then a shipment holding allocations was completed.
C10_Witness ==
    /\ response.op = "ship"
    /\ response.status = "ok"
    /\ \E a \in BagToSet(allocations) : a.item = "b1" /\ shipment_date[a.shipment] # Null
    /\ \E a \in BagToSet(allocations) : a.item = "s1" /\ shipment_date[a.shipment] = Null
    /\ quantity["b1"] = 0

\* the allocation rows of a shipment
AllocationsOf(table, shipment) ==
    [a \in {x \in BagToSet(table) : x.shipment = shipment} |-> table[a]]

\* C6: once the shipment_date of a shipment is set, the date and the
\* allocations of the shipment never change: no allocation request adds to it
\* and it cannot be completed again.
C6_ShippedIsImmutable ==
    [][ \A sh \in Shipments :
            shipment_date[sh] # Null =>
                /\ shipment_date'[sh] = shipment_date[sh]
                /\ AllocationsOf(allocations', sh) = AllocationsOf(allocations, sh)
      ]_vars

\* C6 witness: a shipment holding allocations is shipped, and a later request
\* naming it (an allocation, or a second completion) has just been rejected.
C6_Witness ==
    /\ shipment_date["sh1"] = "d1"
    /\ shipment_date["sh2"] = Null
    /\ AllocationsOf(allocations, "sh1") # EmptyBag
    /\ response.status = "error"
    /\ response.errors = {"shipment"}

\* C2 (as claimed): when two allocation requests on the same stock item run
\* concurrently, each checking unallocated_quantity and persisting later, the
\* allocations of the stock item never sum to more than its quantity.
C2_ConcurrentNoOverAllocation ==
    \A item \in StockItems : AllocatedOnItem(item) <= quantity[item]

(***************************************************************************)
(* Claims about the order endpoints                                        *)
(***************************************************************************)
\* C4: once the order is in a terminal state, every issue, receive, complete
\* and cancel request on it is refused with a validation error and leaves its
\* status as it is
C4_TerminalOrderRejects ==
    [][ (order_status \in TerminalStatus(order_kind)) =>
            /\ order_status' = order_status
            /\ response'.op \in {"issue", "receive", "complete", "cancel"}
            /\ response'.status = "error"
            /\ response'.raised = "ValidationError"
      ]_vars

\* a return order is complete and a receipt has been refused since, a
\* purchase order is cancelled and its completion has been refused since
C4_Witness ==
    \/ /\ order_kind = "RO"
       /\ order_status = "COMPLETE"
       /\ response.op = "receive"
       /\ response.status = "error"
    \/ /\ order_kind = "PO"
       /\ order_status = "CANCELLED"
       /\ response.op = "complete"
       /\ response.stage = "save"
       /\ response.status = "error"

\* C5: a receipt batch of a purchase order that fails, in validation or while
\* an item is received, creates no stock item and changes no received
\* quantity
C5_ReceiptBatchAtomic ==
    [][ (order_kind = "PO" /\ response'.op = "receive" /\ response'.status = "error") =>
            /\ stock' = stock
            /\ received' = received
      ]_vars

\* the second item of a batch has failed while it was received, after the
\* first was
C5_Witness ==
    /\ order_kind = "PO"
    /\ response.op = "receive"
    /\ response.status = "error"
    /\ response.stage = "save"
    /\ response.failed_at = 2
    /\ order_status = "PLACED"

\* C7: no line item of the purchase order has received more than its
\* requested quantity
C7_ReceivedWithinRequested ==
    order_kind = "PO" =>
        \A line \in OwnLines("PO") : received[line] <= po_line_quantity(line)

\* C11: an issue request succeeds only on a PENDING order, which it issues; on
\* an order of any other status it is refused with a validation error and
\* leaves the status as it is
C11_IssueOnlyWhenPending ==
    [][ (response'.op = "issue") =>
            IF order_status = "PENDING"
            THEN /\ response'.status = "ok"
                 /\ order_status' = IssuedStatus(order_kind)
            ELSE /\ response'.status = "error"
                 /\ response'.raised = "ValidationError"
                 /\ order_status' = order_status
      ]_vars

\* an order has been issued, and an issue request on it has been refused since
C11_Witness ==
    /\ order_status = IssuedStatus(order_kind)
    /\ response.op = "issue"
    /\ response.status = "error"

\* the order still has a line item that is not fully received or shipped
LinesIncomplete ==
    IF order_kind = "PO" THEN ~is_complete
    ELSE IF order_kind = "SO" THEN ~is_completed
    ELSE \E line \in OwnLines("RO") : received[line] = 0

\* C12 (as claimed): a complete request on an order with incomplete line items
\* succeeds only if it passes accept_incomplete = true
C12_CompleteNeedsOverride ==
    [][ (LinesIncomplete /\ response'.op = "complete" /\ response'.status = "ok") =>
            \/ PurchaseOrderComplete(TRUE)
            \/ SalesOrderComplete(TRUE)
      ]_vars

\* C13: a cancel request on an order in a terminal state is refused with a
\* validation error and changes nothing of the order; a cancel request
\* succeeds only when the order can be cancelled, and cancels it
C13_CancelOnlyWhenCancellable ==
    [][ (response'.op = "cancel") =>
            /\ (order_status \in TerminalStatus(order_kind)) =>
                  /\ response'.status = "error"
                  /\ response'.raised = "ValidationError"
                  /\ UNCHANGED orderVars
            /\ response'.status = "ok" =>
                  /\ can_cancel
                  /\ order_status' = "CANCELLED"
      ]_vars

\* a cancelled order has refused a cancel request
C13_Witness ==
    /\ order_status = "CANCELLED"
    /\ response.op = "cancel"
    /\ response.status = "error"

\* every line item the request lists is a line item of the return order that
\* has not been received
ReturnLinesReceivable(data) ==
    \A k \in 1..Len(data.items) :
        /\ data.items[k].item \in OwnLines("RO")
        /\ received[data.items[k].item] = 0

C15_ReceiptNeedsPlacedOrder ==
    [][ (order_kind = "PO" /\ response'.op = "receive") =>
            IF response'.status = "ok"
            THEN /\ order_status = "PLACED"
                 /\ \A k \in 1..Len(response'.data.items) :
                       response'.data.items[k].line_item \in OwnLines("PO")
            ELSE /\ response'.raised = "ValidationError"
                 /\ stock' = stock
                 /\ received' = received
      ]_vars

\* a batch whose entries are all valid has been refused, while its first item
\* was received, by an order that is not placed
C15_Witness ==
    /\ order_kind = "PO"
    /\ order_status # "PLACED"
    /\ response.op = "receive"
    /\ response.status = "error"
    /\ response.stage = "save"
    /\ response.failed_at = 1
    /\ stock = InitialStock

\* the location the claim gives an entry: its own, else the destination of its
\* line, else the location of the request
ClaimedLocation(entry, location) ==
    IF entry.location # Null THEN entry.location
    ELSE IF get_destination(entry.line_item) # Null
    THEN get_destination(entry.line_item)
    ELSE location

\* C16 (as claimed): every item of an accepted receipt is received into the
\* first of its own location, the destination of its line and the location of
\* the request that is not null, and a receipt with an item for which all
\* three are null fails with a validation error
C16_LocationOrder ==
    [][ (order_kind = "PO" /\ response'.op = "receive") =>
            IF response'.status = "ok"
            THEN LET request == response'.data.initial_data
                 IN  /\ \A k \in 1..Len(request.items) :
                           response'.data.items[k].location =
                               ClaimedLocation(request.items[k], request.location)
                     /\ \A row \in Range(response'.created) :
                           \E k \in 1..Len(request.items) :
                               /\ row.part = base_part(request.items[k].line_item)
                               /\ row.location =
                                    ClaimedLocation(request.items[k], request.location)
            ELSE response'.raised = "ValidationError"
      ]_vars

\* two items of the batch carry the same barcode, and it is not empty
SharesBarcode(items) ==
    \E j, k \in 1..Len(items) :
        /\ j < k
        /\ items[k].barcode # ""
        /\ items[j].barcode = items[k].barcode

\* C17: a receipt batch in which two items carry the same non-empty barcode
\* is refused with a validation error in validation, before any stock item is
\* created; validation refuses a batch for its barcodes only if two of its
\* items share a non-empty one
C17_BatchBarcodesUnique ==
    [][ (order_kind = "PO" /\ response'.op = "receive"
            /\ response'.errors # {"items"}) =>
            LET request == response'.data.initial_data
            IN  /\ SharesBarcode(request.items) =>
                      /\ response'.status = "error"
                      /\ response'.raised = "ValidationError"
                      /\ response'.stage = "validate"
                      /\ stock' = stock
                      /\ received' = received
                /\ (/\ response'.stage = "validate"
                    /\ response'.errors = {"non_field_errors"}
                    /\ Len(request.items) > 0) => SharesBarcode(request.items)
      ]_vars

\* a batch of two items with the same barcode has been refused in validation
\* by an order that is placed
C17_Witness ==
    /\ order_kind = "PO"
    /\ order_status = "PLACED"
    /\ response.op = "receive"
    /\ response.status = "error"
    /\ response.stage = "validate"
    /\ response.errors = {"non_field_errors"}
    /\ Len(response.data.items) = 2
    /\ response.data.items[1].barcode = "X"
    /\ response.data.items[2].barcode = "X"

\* no two rows of the table have the same barcode hash
UniqueBarcodes(table) ==
    \A item \in BagToSet(table) :
        item.barcode_hash # Null =>
            /\ table[item] = 1
            /\ \A other \in BagToSet(table) :
                  other.barcode_hash = item.barcode_hash => other = item

FieldsValid(entry) ==
    /\ entry.line_item \in OwnLines("PO")
    /\ entry.quantity > 0
    /\ entry.barcode # "" => ~lookup_barcode(stock, hash_barcode(entry.barcode))

\* C19: an accepted purchase receipt has, for every item of a trackable part,
\* a whole quantity in base units, and for every item with serial numbers,
\* the serial numbers extracted for that quantity; a receipt with an item of
\* a trackable part whose base quantity is not whole, or whose serial numbers
\* cannot be extracted, fails in validation with a validation error that
\* names the field (quantity, serial_numbers) of the item, and receives
\* nothing
C19_TrackableNeedsWholeQuantity ==
    [][ (order_kind = "PO" /\ response'.op = "receive") =>
            LET request == response'.data.initial_data
            IN  \A k \in 1..Len(request.items) :
                    LET entry == request.items[k]
                        base == base_quantity(entry.line_item, entry.quantity)
                        fraction == trackable(base_part(entry.line_item)) /\ base[1] % base[2] # 0
                        extraction ==
                            extract_serial_numbers(
                                Literals(entry.serial_numbers), base[1] \div base[2],
                                base_part_get_latest_serial_number(
                                    base_part(entry.line_item)))
                        unextractable ==
                            /\ entry.serial_numbers # <<>>
                            /\ (base[1] % base[2] # 0 \/ ~extraction.ok)
                    IN  /\ response'.status = "ok" =>
                              /\ ~fraction
                              /\ ~unextractable
                              /\ entry.serial_numbers # <<>> =>
                                    response'.data.items[k].serials = extraction.serials
                        /\ (fraction \/ unextractable) =>
                              /\ response'.status = "error"
                              /\ response'.stage = "validate"
                              /\ response'.raised = "ValidationError"
                              /\ response'.errors = {"items"}
                              /\ stock' = stock
                              /\ received' = received
                        /\ (FieldsValid(entry) /\ fraction) =>
                              response'.data.item_errors[k] = {"quantity"}
                        /\ (FieldsValid(entry) /\ ~fraction /\ unextractable) =>
                              response'.data.item_errors[k] = {"serial_numbers"}
      ]_vars

\* a placed order whose first line is sold by the half unit has received a
\* pack of its second line, and has then refused one pack of the first with
\* an error on the quantity of the item
C19_Witness ==
    /\ order_kind = "PO"
    /\ order_status = "PLACED"
    /\ pack_quantity["pl1"] = Decimal(1, 2)
    /\ received["pl2"] = 1
    /\ response.op = "receive"
    /\ response.status = "error"
    /\ response.errors = {"items"}
    /\ response.data.initial_data.items[1].line_item = "pl1"
    /\ response.data.initial_data.items[1].quantity = 1
    /\ response.data.item_errors[1] = {"quantity"}

\* C20 (as claimed): a request of the line item endpoint that names the
\* purchase order is accepted only while the status of the order is PENDING
\* or PLACED; on an order of any other status it is refused with a validation
\* error and no line item is made or changed
C20_LineItemOnlyOnOpenOrder ==
    [][ (/\ response'.op \in {"line_create", "line_update"}
         /\ response'.data.order # Null
         /\ order_status \notin {"PENDING", "PLACED"}) =>
            /\ response'.status = "error"
            /\ response'.raised = "ValidationError"
            /\ line_items' = line_items
      ]_vars

(***************************************************************************)
(* Claims about the serial number extractor                                *)
(***************************************************************************)
\* C21: the serial numbers a call of the extractor returns are as many as
\* were expected, and no two of them are the same
C21_ExtractedCountAndDistinct ==
    [][ (response'.op = "extract" /\ response'.status = "ok") =>
            /\ Len(response'.created) = response'.data.expected_quantity
            /\ Cardinality(Range(response'.created)) = Len(response'.created)
      ]_vars

\* a call has returned four serial numbers, three of them from a range
C21_Witness ==
    /\ response.op = "extract"
    /\ response.status = "ok"
    /\ response.data.tokens = <<RangeToken("1", "3"), Increment("~", "")>>
    /\ response.data.starting_value = 3
    /\ response.created = <<"1", "2", "3", "4">>

\* the spec is a list of literal serial numbers
AllLiterals(tokens) ==
    \A k \in 1..Len(tokens) : tokens[k].kind = "literal" /\ tokens[k].a # "~"

\* a range token of the spec descends, has a side that is no integer, or has
\* more values than are expected
BadRange(tokens, expected) ==
    \E k \in 1..Len(tokens) :
        /\ tokens[k].kind = "range"
        /\ \/ ~is_int(tokens[k].a)
           \/ ~is_int(tokens[k].b)
           \/ parse_int(tokens[k].a) > parse_int(tokens[k].b)
           \/ parse_int(tokens[k].b) - parse_int(tokens[k].a) + 1 > expected

\* a list of literal serial numbers that is not as long as expected, or has
\* a serial number twice
BadLiterals(tokens, expected) ==
    /\ AllLiterals(tokens)
    /\ \/ Len(tokens) # expected
       \/ \E j, k \in 1..Len(tokens) : j < k /\ tokens[j].a = tokens[k].a

\* C22 (as claimed): a call of the extractor fails with a validation error,
\* and returns nothing, whenever the spec is empty, its serial numbers are
\* not as many as expected or not distinct, or one of its range tokens
\* descends, has a side that is no integer or has more values than expected
C22_ExtractorFailures ==
    [][ (/\ response'.op = "extract"
         /\ \/ response'.data.tokens = <<>>
            \/ BadLiterals(response'.data.tokens, response'.data.expected_quantity)
            \/ BadRange(response'.data.tokens, response'.data.expected_quantity)) =>
            /\ response'.status = "error"
            /\ response'.raised = "ValidationError"
            /\ response'.created = <<>>
      ]_vars

\* C22 (amended): the same, the range tokens counting only in a spec that
\* has not exactly as many tokens as serial numbers are expected
C22_ExtractorFailuresUnlessCounted ==
    [][ (/\ response'.op = "extract"
         /\ \/ response'.data.tokens = <<>>
            \/ BadLiterals(response'.data.tokens, response'.data.expected_quantity)
            \/ /\ Len(response'.data.tokens) # response'.data.expected_quantity
               /\ BadRange(response'.data.tokens, response'.data.expected_quantity)) =>
            /\ response'.status = "error"
            /\ response'.raised = "ValidationError"
            /\ response'.created = <<>>
      ]_vars

\* a spec of a serial number and a descending range, one serial number
\* expected, has been refused
C22_Witness ==
    /\ response.op = "extract"
    /\ response.status = "error"
    /\ response.data.tokens = <<Literal("2"), RangeToken("3", "1")>>
    /\ response.data.expected_quantity = 1

\* how many of the first k tokens are placeholder forms
PlaceholdersUpTo(tokens, k) ==
    Cardinality({j \in 1..k : tokens[j].a = "~"})

\* the spec with `text(k)` for the `~` of its k-th token
WithPlaceholderAs(tokens, text(_)) ==
    [k \in 1..Len(tokens) |->
        IF tokens[k].a = "~" THEN [tokens[k] EXCEPT !.a = text(k)] ELSE tokens[k]]

\* the result of the call whose answer the response is
Returned(r) == [ok |-> r.status = "ok", serials |-> r.created]

\* C23 (as claimed): a call returns what it returns for the spec with the
\* hint in the place of every `~`
C23_PlaceholderIsHint ==
    [][ (response'.op = "extract") =>
            LET call == response'.data
                hint(k) == str(call.starting_value)
            IN  Returned(response') =
                    extract_serial_numbers(WithPlaceholderAs(call.tokens, hint),
                                           call.expected_quantity, call.starting_value)
      ]_vars

\* C23 (amended): a call returns what it returns for the spec with, in the
\* place of the i-th `~` from the left, the i-th serial number after the
\* hint, whatever the other tokens are
C23_PlaceholderIsNextAfterHint ==
    [][ (response'.op = "extract") =>
            LET call == response'.data
                next(k) == str(call.starting_value + PlaceholdersUpTo(call.tokens, k))
            IN  Returned(response') =
                    extract_serial_numbers(WithPlaceholderAs(call.tokens, next),
                                           call.expected_quantity, call.starting_value)
      ]_vars

\* a call with two placeholders has returned the three serial numbers after
\* the hint
C23_Witness ==
    /\ response.op = "extract"
    /\ response.status = "ok"
    /\ response.data.tokens = <<Literal("~"), Increment("~", "1")>>
    /\ response.data.starting_value = 1
    /\ response.created = <<"2", "3", "4">>

\* the spec is one `~+K`, and K+1 serial numbers are expected
OnePlaceholderIncrement(call) ==
    /\ Len(call.tokens) = 1
    /\ call.tokens[1].kind = "increment"
    /\ call.tokens[1].a = "~"
    /\ call.tokens[1].b # ""
    /\ call.expected_quantity = parse_int(call.tokens[1].b) + 1

\* the spec is a list of `~`, and as many serial numbers are expected
OnlyPlaceholders(call) ==
    /\ call.tokens # <<>>
    /\ \A k \in 1..Len(call.tokens) : call.tokens[k] = Literal("~")
    /\ call.expected_quantity = Len(call.tokens)

\* C24 (as claimed): with the hint h, a spec of k `~` returns the serial
\* numbers h+1 .. h+k, and the spec `~+K` returns h+1 .. h+K+1
C24_PlaceholdersContinue ==
    [][ (response'.op = "extract") =>
            LET call == response'.data
            IN  /\ OnlyPlaceholders(call) =>
                      /\ response'.status = "ok"
                      /\ response'.created =
                            Consecutive(call.starting_value + 1, Len(call.tokens))
                /\ OnePlaceholderIncrement(call) =>
                      /\ response'.status = "ok"
                      /\ response'.created =
                            Consecutive(call.starting_value + 1, call.expected_quantity)
      ]_vars

\* C24 (amended): the same, the spec `~+K` for K of 1 or more
C24_PlaceholdersContinueFromOne ==
    [][ (response'.op = "extract") =>
            LET call == response'.data
            IN  /\ OnlyPlaceholders(call) =>
                      /\ response'.status = "ok"
                      /\ response'.created =
                            Consecutive(call.starting_value + 1, Len(call.tokens))
                /\ (OnePlaceholderIncrement(call) /\ call.expected_quantity > 1) =>
                      /\ response'.status = "ok"
                      /\ response'.created =
                            Consecutive(call.starting_value + 1, call.expected_quantity)
      ]_vars

\* a call with the spec `~ ~` and the hint 2 has returned 3 and 4
C24_Witness ==
    /\ response.op = "extract"
    /\ response.status = "ok"
    /\ response.data.tokens = <<Literal("~"), Literal("~")>>
    /\ response.data.starting_value = 2
    /\ response.created = <<"3", "4">>

(***************************************************************************)
(* Claims about the exception handler and the overdue checks               *)
(***************************************************************************)
\* C25: whatever a receipt or an allocation is refused for, in is_valid() or
\* in save(), by the serializer or by the model, the caller gets the answer
\* of a REST framework validation error: status 400 with a message map keyed
\* by field
C25_OneValidationErrorKind ==
    [][ (response'.op \in {"receive", "allocate"} /\ response'.status = "error") =>
            /\ response'.raised \in ValidationErrors
            /\ response'.handled.outcome = "response"
            /\ response'.handled.status_code = 400
            /\ response'.handled.keys # {}
            /\ "__all__" \notin response'.handled.keys
      ]_vars

\* the model has refused an allocation in save() with a django validation
\* error, and the caller has got status 400
C25_Witness ==
    /\ order_kind = "SO"
    /\ response.op = "allocate"
    /\ response.status = "error"
    /\ response.stage = "save"
    /\ response.raised = "DjangoValidationError"
    /\ response.handled.status_code = 400

\* a step that is a run of the daily task
Runs(task) == ~ran_today[task] /\ ran_today'[task]

\* the orders of `objects` that became overdue yesterday: open, with
\* yesterday as target date
BecameOverdue(objects, open) ==
    {o \in objects : /\ task_orders[o].target_date = today - 1
                     /\ task_orders[o].status \in open}

\* the call made for order o today
Call(o) == [order |-> o, day |-> today]

TimesNotified(o) ==
    LET calls == {n \in BagToSet(notifications) : n.order = o}
    IN  BagCardinality([n \in calls |-> notifications[n]])

\* a run of the two checks notifies the orders that became overdue
\* yesterday, each one once, and no other order
NotifiesWhoBecameOverdue ==
    /\ Runs("check_overdue_purchase_orders") =>
          notifications' = notifications (+) SetToBag(
              {Call(o) : o \in BecameOverdue(PurchaseOrder_objects,
                                             PurchaseOrderStatusGroups_OPEN)})
    /\ Runs("check_overdue_sales_orders") =>
          notifications' = notifications (+) SetToBag(
              {Call(o) : o \in BecameOverdue(SalesOrder_objects,
                                             SalesOrderStatusGroups_OPEN)})

\* C30 as stated: a run of check_overdue_purchase_orders or
\* check_overdue_sales_orders notifies exactly the open orders whose target
\* date is the day before the run, and over runs on distinct days no order is
\* notified more than once
C30_OverdueNotifiedOnce ==
    [][ /\ NotifiesWhoBecameOverdue
        /\ \A o \in DOMAIN task_orders : TimesNotified(o)' <= 1
      ]_vars

\* C30: a run of check_overdue_purchase_orders or check_overdue_sales_orders
\* notifies exactly the open orders whose target date is the day before the
\* run, and over runs on distinct days no order is notified more than once
\* for one target date: every notification of an order is of another day
C30_OverdueNotifiedOncePerTargetDate ==
    [][ /\ NotifiesWhoBecameOverdue
        /\ \A n \in BagToSet(notifications') : CopiesIn(n, notifications') = 1
      ]_vars

\* an order has been notified on the day after its target date, has been
\* moved to a later date and has been notified again on the day after it
C30_Witness ==
    \E o \in PurchaseOrder_objects :
        /\ task_orders[o].target_date = today - 1
        /\ BagIn(Call(o), notifications)
        /\ TimesNotified(o) = 2

\* the exceptions the REST framework does not answer by itself
Unhandled(exc) == exc.class \notin APIExceptions \cup {"DjangoValidationError"}

\* the body of a response
Body(h) == [keys |-> h.keys, error |-> h.error, error_class |-> h.error_class,
            detail |-> h.detail, path |-> h.path, status_code |-> h.status_code]

\* C27: in production mode an exception the REST framework does not answer
\* gets a response of status 500 whose body is the body any other such
\* exception gets on the same path, whatever its message or class; in
\* TESTING mode the exception is raised again
C27_OpaqueServerError ==
    [][ (response'.op = "handle" /\ Unhandled(req.caller.exc)) =>
            LET call == req.caller
            IN  /\ call.settings = Production =>
                      /\ response'.handled.outcome = "response"
                      /\ response'.handled.status_code = 500
                      /\ \A other \in {e \in Exceptions : Unhandled(e)} :
                            Body(exception_handler(other, call.path, call.settings))
                                = Body(response'.handled)
                /\ call.settings.TESTING =>
                      /\ response'.handled.outcome = "raise"
                      /\ response'.handled.error = call.exc.class
      ]_vars

(***************************************************************************)
(* Claims about the version check                                          *)
(***************************************************************************)
\* C28: on a build of a tag the version check passes, and docker tags are
\* written, only if the version of version.py is the tag being built and is
\* not the version of an existing release
C28_TaggedBuildChecksVersion ==
    [][ (response'.op = "version_check" /\ response'.status = "ok"
            /\ req.caller.env.GITHUB_REF_TYPE = "tag") =>
            /\ req.caller.version = version_tag(req.caller.env.GITHUB_REF)
            /\ version_match(req.caller.version) \notin req.caller.existing
      ]_vars

(***************************************************************************)
(* Claims about a batch that lists a stock item more than once             *)
(***************************************************************************)
\* the entries of a batch on stock item `item`
EntriesOn(data, item) == {k \in DOMAIN data.items : data.items[k].stock_item = item}

\* the sum of the quantities of the entries `ks` of a batch
RECURSIVE BatchQuantity(_, _)
BatchQuantity(data, ks) ==
    IF ks = {} THEN 0
    ELSE LET k == CHOOSE x \in ks : TRUE
         IN  data.items[k].quantity + BatchQuantity(data, ks \ {k})

\* the batch lists a stock item in several entries, each within the
\* unallocated quantity of the item, their sum beyond it
SplitsBeyondStock(data) ==
    \E item \in StockItems :
        /\ Cardinality(EntriesOn(data, item)) >= 2
        /\ \A k \in EntriesOn(data, item) :
              data.items[k].quantity <= unallocated_quantity(item, allocations)
        /\ BatchQuantity(data, EntriesOn(data, item)) > unallocated_quantity(item, allocations)

\* C29: an allocation batch that lists one stock item in several entries,
\* each within the unallocated quantity of the item and their sum beyond it,
\* is refused and leaves the allocation table as it was
C29_SplitBatchRefused ==
    [][ (response'.op = "allocate" /\ response'.stage = "save"
            /\ SplitsBeyondStock(response'.data)) =>
            /\ response'.status = "error"
            /\ response'.created = <<>>
            /\ allocations' = allocations
      ]_vars

\* a batch of two entries on the bulk item, each within the stock of the
\* item and the two beyond it, has been refused at its second entry
C29_Witness ==
    /\ response.op = "allocate"
    /\ response.stage = "save"
    /\ response.status = "error"
    /\ response.failed_at = 2
    /\ SplitsBeyondStock(response.data)
    /\ response.data.items[1].stock_item = response.data.items[2].stock_item

=============================================================================
